---- MODULE Spec2Model ----
(***************************************************************************)
(* A model of the searchfn engine (SearchFn facade, pipeline, indexer,     *)
(* LRU term cache, query engine and the IndexedDB object stores).          *)
(*                                                                         *)
(* Strings are sequences of one-character strings, so that tokenizing,     *)
(* lower-casing, stemming, prefix expansion and cache-key concatenation    *)
(* are computed character by character.  JavaScript Map and Set objects    *)
(* are kept in insertion order (a sequence of [k, v] entries), because     *)
(* the engine iterates them and the iteration order decides which entries  *)
(* the LRU cache evicts.  Object stores are keyed records (functions).     *)
(***************************************************************************)
EXTENDS Integers, Sequences, FiniteSets, TLC

VARIABLES
  config,            \* SearchFnOptions: pipeline options and term cache size
  postings,          \* Map<field, Map<term, Map<docKey, PostingInfo>>>
  dirtyPostings,     \* Map<field, Set<term>>
  vocabulary,        \* Set<string>
  vocabularyDirty,   \* boolean
  pendingDocuments,  \* Map<docKey, payload>
  termCache,         \* LruCache<TermCacheValue>, most recently used first
  statsLengths,      \* DocumentStatsManager.lengths
  opened,            \* openPromise has been created and awaited
  termsStore,        \* object store "terms", key [field, term, chunk]
  documentsStore,    \* object store "documents", key docId
  cacheStateStore,   \* object store "cacheState", key string
  lastOp,            \* history: the operation that completed last
  ops,               \* history: number of operations performed
  live,              \* history: docKey -> latest input added in this session
  durable,           \* history: docKey -> input added and then flushed
  unflushed,         \* history: docKeys added with persist:false, adds only since
  volatile,          \* history: docKeys new to the database, never persisted
  loaded,            \* history: (field, term) pairs loaded in this session
  removedScope,      \* history: docKey -> pairs loaded when it was removed
  latestStore,       \* history: docKey -> payload of the most recent add
  faulted,           \* history: an adapter failure has made an operation reject
  emptied,           \* history: (field, term) pairs whose doc map a remove emptied
  lru,               \* an LruCache on its own: map, head, tail, stats
  lruCall,           \* history: the last call on lru, its result, the calls so far
  expansion,         \* a call of fuzzyExpand: its arguments and its result
  codec,             \* a call of encodePostings and of decodePostings on its result
  flushing,          \* the flush() in flight: its promise and its sub-operations
  statsManager,      \* a DocumentStatsManager on its own, and history: its last call
  ranked,            \* a ranking from scorePostings, search options, and what each engine returns
  bulkCall,          \* the batch loop of one addBulk or addBulkWithRecovery call
  opening,           \* ensureOpen: the memoised opening and the operations awaiting it
  inMemory           \* an InMemorySearchFn: its maps, its fuzzy expansion cache, its last search

\* the fields of a SearchFn instance, its database and its history
engineVars == << config, postings, dirtyPostings, vocabulary, vocabularyDirty,
                 pendingDocuments, termCache, statsLengths, opened,
                 termsStore, documentsStore, cacheStateStore,
                 lastOp, ops, live, durable, unflushed, volatile, loaded,
                 removedScope, latestStore, faulted, emptied >>

vars == << engineVars, lru, lruCall, expansion, codec, flushing,
          statsManager,
          ranked,
          bulkCall,
          opening,
          inMemory >>

(***************************************************************************)
(* Bounds of the exploration.                                              *)
(***************************************************************************)
MaxOps == 4

\* calls on the LruCache of LruSpec, and its largest capacity
MaxCalls == 5
MaxEntries == 2

\* the longest term (a vocabulary word may be one character longer) and the
\* largest distance fuzzyExpand is called with
MaxLen == 3
MaxDistance == 4

\* the longest list encodePostings is called with in CodecSpec
MaxValues == 2
\* bytes of a stored payload handed to decodePostings
MaxBytes == 6
\* documents in a ranking handed to the limit and minScore steps of a search
MaxRanked == 11
\* documents handed to one addBulk or addBulkWithRecovery call
MaxDocuments == 4
\* iterations of the batch loop that are followed
MaxBatches == 6
\* calls on one InMemorySearchFn
MaxMemoryCalls == 4

(***************************************************************************)
(* Strings.                                                                *)
(***************************************************************************)
\* String.prototype.toLowerCase over the alphabet of the texts
RECURSIVE ToLowerCase(_)
ToLowerCase(s) ==
  IF s = << >> THEN << >>
  ELSE << CASE Head(s) = "T" -> "t"
            [] Head(s) = "C" -> "c"
            [] OTHER -> Head(s) >> \o ToLowerCase(Tail(s))

Slice(s, from, to) == SubSeq(s, from + 1, to)

Min(a, b) == IF a < b THEN a ELSE b

(***************************************************************************)
(* Insertion-ordered maps and sets (JavaScript Map / Set).                 *)
(***************************************************************************)
Has(m, key) == \E i \in 1..Len(m) : m[i].k = key
Get(m, key) == m[CHOOSE i \in 1..Len(m) : m[i].k = key].v

\* Map.set: an existing key keeps its position, a new key goes last
Put(m, key, val) ==
  IF Has(m, key)
  THEN [ i \in 1..Len(m) |-> IF m[i].k = key THEN [k |-> key, v |-> val] ELSE m[i] ]
  ELSE Append(m, [k |-> key, v |-> val])

Delete(m, key) == SelectSeq(m, LAMBDA e : e.k # key)

\* Set.add on a sequence without duplicates
SetAdd(s, x) ==
  IF \E i \in 1..Len(s) : s[i] = x THEN s ELSE Append(s, x)

Elems(s) == { s[i] : i \in 1..Len(s) }

(***************************************************************************)
(* Pipeline.                                                               *)
(***************************************************************************)

NoMetadata == [present |-> FALSE, isPrefix |-> FALSE, originalTerm |-> << >>]

\* tokenizeStage.execute on the single seed token holding the raw text
tokenizeStage(tokens) ==
  LET RECURSIVE TokenizeFrom(_, _, _, _)
      TokenizeFrom(text, pos, current, start) ==
        LET \* /[\p{L}\p{N}]+/gu matches maximal runs of letters and digits
            IsTokenChar(c) ==
              c \in {"a", "c", "d", "e", "g", "h", "o", "s", "t"} \cup {"T", "C"} \cup {"1", "2"}
        IN
        IF pos > Len(text)
        THEN IF current = << >> THEN << >>
             ELSE << [value |-> current, position |-> start, metadata |-> NoMetadata] >>
        ELSE IF IsTokenChar(text[pos])
             THEN TokenizeFrom(text, pos + 1, Append(current, text[pos]),
                               IF current = << >> THEN pos - 1 ELSE start)
             ELSE IF current = << >>
                  THEN TokenizeFrom(text, pos + 1, << >>, start)
                  ELSE << [value |-> current, position |-> start, metadata |-> NoMetadata] >>
                       \o TokenizeFrom(text, pos + 1, << >>, start)
  IN
                         TokenizeFrom(tokens[1].value, 1, << >>, 0)

normalizeStage(tokens) ==
  [ i \in 1..Len(tokens) |-> [tokens[i] EXCEPT !.value = ToLowerCase(@)] ]

\* PipelineOptions; an option that is not given has given = FALSE
DefaultPipelineOptions ==
  [ stopWordsGiven |-> FALSE, stopWords |-> {},
    language |-> "undefined",
    enableStemming |-> FALSE,
    enableEdgeNGrams |-> FALSE,
    edgeNGramMinLength |-> 0, edgeNGramMaxLength |-> 0 ]

DEFAULT_MIN_GRAM == 2
DEFAULT_MAX_GRAM == 15

\* PipelineEngine.run, the loop over the stages with its break on no tokens
RECURSIVE RunStages(_, _, _)
RunStages(options, stages, tokens) ==
  LET \* the edge n-gram stage buildDefaultStages creates: minLength defaults to 2,
      \* maxLength to 15 and is raised to minLength (an option of 0 is not given)
      createEdgeNGramStage(opts, queue) ==
        LET RECURSIVE generateNGrams(_, _, _)
            generateNGrams(rest, minGram, maxGram) ==
              LET RECURSIVE PrefixesFrom(_, _, _)
                  PrefixesFrom(token, i, maxLength) ==
                    IF i > maxLength THEN << >>
                    ELSE << [token EXCEPT !.value = Slice(token.value, 0, i),
                                          !.metadata = [present |-> TRUE,
                                                        isPrefix |-> i < Len(token.value),
                                                        originalTerm |-> token.value]] >>
                         \o PrefixesFrom(token, i + 1, maxLength)
              IN
              IF rest = << >> THEN << >>
              ELSE (IF Len(Head(rest).value) < minGram
                    THEN << Head(rest) >>
                    ELSE PrefixesFrom(Head(rest), minGram, Min(Len(Head(rest).value), maxGram)))
                   \o generateNGrams(Tail(rest), minGram, maxGram)
        IN
        LET minLength == IF opts.edgeNGramMinLength = 0 THEN DEFAULT_MIN_GRAM
                         ELSE opts.edgeNGramMinLength
            maxLength == IF opts.edgeNGramMaxLength = 0 THEN DEFAULT_MAX_GRAM
                         ELSE opts.edgeNGramMaxLength
        IN generateNGrams(queue, minLength,
                          IF maxLength > minLength THEN maxLength ELSE minLength)
  IN
  LET createStemStage(language, queue) ==
        LET \* getStemmerForLanguage(language).stem(token); NoOpStemmer returns the token
            getStemmerForLanguage(lang, token) ==
              LET \* EnglishStemmer.stem
                  EnglishStemmer(word) ==
                    LET EndsWith(s, suffix) ==
                          /\ Len(s) >= Len(suffix)
                          /\ SubSeq(s, Len(s) - Len(suffix) + 1, Len(s)) = suffix
                    IN
                    LET \* the "ing" branch, on the token without its suffix
                        undoubled(stemmed) ==
                          IF /\ Len(stemmed) <= 4
                             /\ Len(stemmed) >= 3
                             /\ stemmed[Len(stemmed)] = stemmed[Len(stemmed) - 1]
                             /\ stemmed[Len(stemmed)]
                                  \in {"b","d","f","g","l","m","n","p","r","s","t"}
                          THEN Slice(stemmed, 0, Len(stemmed) - 1)
                          ELSE stemmed
                    IN IF Len(word) > 4 /\ EndsWith(word, <<"i","n","g">>)
                       THEN undoubled(Slice(word, 0, Len(word) - 3))
                       ELSE IF Len(word) > 3 /\ EndsWith(word, <<"e","d">>)
                       THEN Slice(word, 0, Len(word) - 2)
                       ELSE IF Len(word) > 2 /\ EndsWith(word, <<"s">>)
                       THEN Slice(word, 0, Len(word) - 1)
                       ELSE word
              IN
              CASE lang \in {"es", "spanish", "fr", "french"} -> token
                [] OTHER -> EnglishStemmer(token)
        IN
        [ i \in 1..Len(queue) |->
            [queue[i] EXCEPT !.value = getStemmerForLanguage(language, @)] ]
  IN
  LET getStopWordsForLanguage(language) ==
        LET \* STOP_WORDS_EN, STOP_WORDS_ES and STOP_WORDS_FR, two words of each
            STOP_WORDS ==
              [ en |-> { <<"t","h","e">>, <<"a","n","d">> },
                es |-> { <<"e","l">>, <<"y">> },
                fr |-> { <<"l","e">>, <<"e","t">> } ]
        IN
        CASE language \in {"es", "spanish"} -> STOP_WORDS.es
          [] language \in {"fr", "french"} -> STOP_WORDS.fr
          [] OTHER -> STOP_WORDS.en
  IN
  LET createStopWordStage(stopWords, queue) ==
        IF stopWords = {} THEN queue
        ELSE SelectSeq(queue, LAMBDA t : t.value \notin stopWords)
  IN
  IF stages = << >> \/ tokens = << >> THEN tokens
  ELSE RunStages(options, Tail(stages),
         CASE Head(stages) = "tokenize" -> tokenizeStage(tokens)
           [] Head(stages) = "normalize" -> normalizeStage(tokens)
           [] Head(stages) = "stopWords" ->
                createStopWordStage(IF options.stopWordsGiven THEN options.stopWords
                                    ELSE getStopWordsForLanguage(options.language),
                                    tokens)
           [] Head(stages) = "stem" -> createStemStage(options.language, tokens)
           [] Head(stages) = "edgeNGram" ->
                createEdgeNGramStage(options, tokens))

\* new PipelineEngine(options).run(field, text)
PipelineRun(options, text) ==
  LET \* buildDefaultStages: the names of the stages the options select
      buildDefaultStages(opts) ==
        << "tokenize", "normalize", "stopWords" >>
        \o (IF opts.enableStemming THEN << "stem" >> ELSE << >>)
        \o (IF opts.enableEdgeNGrams THEN << "edgeNGram" >> ELSE << >>)
  IN
  RunStages(options, buildDefaultStages(options),
            << [value |-> text, position |-> 0, metadata |-> NoMetadata] >>)

(***************************************************************************)
(* Document ids.  A DocId is a number or a string; every map and store     *)
(* is keyed by the canonical string form.                                  *)
(***************************************************************************)
NumId(n) == [num |-> n]
StrId(s) == [str |-> s]

docIdToKey(docId) ==
  LET RECURSIVE DigitsOf(_)
      DigitsOf(n) ==
        IF n < 10 THEN << CHOOSE d \in {"0","1","2","3","4","5","6","7","8","9"} :
                             d = CASE n = 0 -> "0" [] n = 1 -> "1" [] n = 2 -> "2"
                                   [] n = 3 -> "3" [] n = 4 -> "4" [] n = 5 -> "5"
                                   [] n = 6 -> "6" [] n = 7 -> "7" [] n = 8 -> "8"
                                   [] OTHER -> "9" >>
        ELSE DigitsOf(n \div 10) \o DigitsOf(n % 10)
  IN
  IF "str" \in DOMAIN docId THEN docId.str ELSE DigitsOf(docId.num)

(***************************************************************************)
(* The inputs the operations are called with.                              *)
(***************************************************************************)
\* input.store: the payload, or undefined
NoStore == [given |-> FALSE, payload |-> "undefined"]
Store(payload) == [given |-> TRUE, payload |-> payload]

TitleField == <<"t">>
BodyField == <<"b">>

TextTheCat == <<"T","h","e"," ","C","a","t">>
TextCat == <<"c","a","t">>
TextDog == <<"d","o","g">>

DocA == [ id |-> NumId(1),
          fields |-> << [k |-> TitleField, v |-> TextTheCat] >>,
          store |-> Store("p1") ]
DocA2 == [ id |-> StrId(<<"1">>),
           fields |-> << [k |-> TitleField, v |-> TextCat] >>,
           store |-> Store("p2") ]
DocB == [ id |-> StrId(<<"2">>),
          fields |-> << [k |-> TitleField, v |-> TextCat],
                        [k |-> BodyField, v |-> TextDog] >>,
          store |-> NoStore ]

Documents == {DocA, DocA2, DocB}

\* the add calls: << input, options.persist >>
AddCalls == { << DocA, FALSE >>, << DocA2, TRUE >>, << DocB, FALSE >>, << DocB, TRUE >> }
TextCatDog == <<"c","a","t"," ","d","o","g">>
\* queries one edit away from the indexed terms
TextCot == <<"c","o","t">>
TextCotDogs == <<"c","o","t"," ","d","o","g","s">>
\* the proper prefixes the edge n-gram stage makes of the indexed terms
TextCa == <<"c","a">>
Texts ==
  LET TextThe == <<"t","h","e">>
  IN
         {TextTheCat, TextCat, TextDog, TextThe, TextCatDog}

SnapshotB ==
  [ postings |-> << [ field |-> TitleField, term |-> TextCat,
                      documents |-> << [ docId |-> StrId(<<"2">>), termFrequency |-> 1,
                                         metadata |-> NoMetadata ] >> ] >>,
    stats |-> << [docId |-> <<"2">>, length |-> 1] >> ]

PipelineConfigs ==
  { DefaultPipelineOptions,
    [DefaultPipelineOptions EXCEPT !.stopWordsGiven = TRUE],
    [DefaultPipelineOptions EXCEPT !.enableEdgeNGrams = TRUE] }

(***************************************************************************)
(* The pipeline and the indexer are functions of their options and their   *)
(* input; their results on the texts and documents above are computed     *)
(* once.                                                                   *)
(***************************************************************************)
\* the options of the PipelineEngine pipelineWithoutNGrams constructs
QueryPipelineOptions == [DefaultPipelineOptions EXCEPT !.enableEdgeNGrams = FALSE]

PipelineRuns ==
  LET TextDo == <<"d","o">>
  IN
  { [options |-> o, text |-> t, tokens |-> PipelineRun(o, t)] :
      o \in PipelineConfigs \cup {QueryPipelineOptions},
      t \in Texts \cup {TextCot, TextCotDogs, TextCa, TextDo} }

\* pipeline.run(field, text) of a PipelineEngine constructed with options
RunOf(options, text) ==
  (CHOOSE r \in PipelineRuns : r.options = options /\ r.text = text).tokens

\* SearchFn.pipelineWithoutNGrams: a fresh PipelineEngine({enableEdgeNGrams: false})
pipelineWithoutNGrams(text) == RunOf(QueryPipelineOptions, text)

(***************************************************************************)
(* DocumentAccumulator and Indexer.ingest.                                 *)
(***************************************************************************)

\* Indexer.ingest
ingest(options, record) ==
  LET \* convertAccumulatorToDocument
      convertAccumulatorToDocument(docId, fieldStats) ==
        LET RECURSIVE SumLengths(_)
            SumLengths(stats) ==
              IF stats = << >> THEN 0
              ELSE Head(stats).v.length + SumLengths(Tail(stats))
        IN
        [ docId |-> docId,
          fieldFrequencies |->
            [ i \in 1..Len(fieldStats) |->
                [k |-> fieldStats[i].k, v |-> fieldStats[i].v.termFrequencies] ],
          fieldMetadata |->
            [ i \in 1..Len(fieldStats) |->
                [k |-> fieldStats[i].k, v |-> fieldStats[i].v.termMetadata] ],
          totalLength |-> SumLengths(fieldStats) ]
  IN
  LET \* the loop over Object.entries(record.fields)
      RECURSIVE accumulateFields(_, _, _)
      accumulateFields(opts, fields, fieldStats) ==
        LET RECURSIVE addTokens(_, _, _)
            addTokens(accumulated, field, tokens) ==
              LET \* DocumentAccumulator.addToken
                  addToken(stats, name, token) ==
                    LET \* the update of the statistics entry of the token's field
                        counted(entry) ==
                          Put(stats, name,
                              [ termFrequencies |->
                                  Put(entry.termFrequencies, token.value,
                                      (IF Has(entry.termFrequencies, token.value)
                                       THEN Get(entry.termFrequencies, token.value) ELSE 0) + 1),
                                termMetadata |->
                                  IF token.metadata.present /\ ~Has(entry.termMetadata, token.value)
                                  THEN Put(entry.termMetadata, token.value, token.metadata)
                                  ELSE entry.termMetadata,
                                length |-> entry.length + 1 ])
                    IN IF token.value = << >> THEN stats
                       ELSE counted(IF Has(stats, name) THEN Get(stats, name)
                                    ELSE [termFrequencies |-> << >>, termMetadata |-> << >>,
                                          length |-> 0])
              IN
              IF tokens = << >> THEN accumulated
              ELSE addTokens(addToken(accumulated, field, Head(tokens)), field, Tail(tokens))
        IN
        IF fields = << >> THEN fieldStats
        ELSE accumulateFields(opts, Tail(fields),
               IF Head(fields).v = << >> THEN fieldStats
               ELSE addTokens(fieldStats, Head(fields).k,
                              PipelineRun(opts, Head(fields).v)))
  IN
  convertAccumulatorToDocument(record.docId,
                               accumulateFields(options, record.fields, << >>))

IndexingInputRecord(input) == [docId |-> input.id, fields |-> input.fields]

Ingests ==
  { [options |-> o, record |-> IndexingInputRecord(d),
     ingested |-> ingest(o, IndexingInputRecord(d))] :
      o \in PipelineConfigs, d \in Documents }

\* indexer.ingest(record) of an Indexer over a PipelineEngine with options
IngestOf(options, record) ==
  (CHOOSE r \in Ingests : r.options = options /\ r.record = record).ingested

\* Indexer.ingestBatch: every (field, text) is tokenized once and reused
ingestBatch(options, records) ==
  [ i \in 1..Len(records) |-> IngestOf(options, records[i]) ]

RECURSIVE IngestVisits(_, _)
IngestVisits(ing, i) ==
  LET \* the (field, term, frequency, metadata) visits of the two nested loops of
      \* add / processIngestedDocument, in iteration order
      RECURSIVE TermVisits(_, _, _)
      TermVisits(field, termFrequencies, metadata) ==
        IF termFrequencies = << >> THEN << >>
        ELSE << [ field |-> field, term |-> Head(termFrequencies).k,
                  frequency |-> Head(termFrequencies).v,
                  metadata |-> IF Has(metadata, Head(termFrequencies).k)
                               THEN Get(metadata, Head(termFrequencies).k)
                               ELSE NoMetadata ] >>
             \o TermVisits(field, Tail(termFrequencies), metadata)
  IN
  IF i > Len(ing.fieldFrequencies) THEN << >>
  ELSE LET field == ing.fieldFrequencies[i].k
       IN TermVisits(field, ing.fieldFrequencies[i].v,
                     IF Has(ing.fieldMetadata, field)
                     THEN Get(ing.fieldMetadata, field) ELSE << >>)
          \o IngestVisits(ing, i + 1)

(***************************************************************************)
(* DocumentStatsManager (lengths).                                         *)
(***************************************************************************)
addDocument(lengths, docId, totalLength) == Put(lengths, docIdToKey(docId), totalLength)

removeDocument(lengths, docId) == Delete(lengths, docIdToKey(docId))

\* snapshot(): Array.from(lengths.entries())
StatsSnapshot(lengths) ==
  [ i \in 1..Len(lengths) |-> [docId |-> lengths[i].k, length |-> lengths[i].v] ]

StatsLoad(entries) ==
  LET RECURSIVE StatsLoadFrom(_, _)
      StatsLoadFrom(rest, lengths) ==
        IF rest = << >> THEN lengths
        ELSE StatsLoadFrom(Tail(rest),
                           addDocument(lengths, StrId(Head(rest).docId), Head(rest).length))
  IN
                      StatsLoadFrom(entries, << >>)

(***************************************************************************)
(* LruCache: entries from head (most recently used) to tail.               *)
(***************************************************************************)

\* the cache after set(key, value): past capacity the tail is evicted
LruSet(cache, key, value, maxEntries) ==
  IF Has(cache, key)
  THEN << [k |-> key, v |-> value] >> \o Delete(cache, key)
  ELSE LET added == << [k |-> key, v |-> value] >> \o cache
       IN IF Len(added) > maxEntries THEN SubSeq(added, 1, Len(added) - 1) ELSE added

LruClear == << >>

(***************************************************************************)
(* LruCache as the class holds it: map is Map<key, Node>, a node is named  *)
(* by the key of its entry, and prev, next, head and tail name nodes or    *)
(* are "undefined".                                                        *)
(***************************************************************************)
\* new LruCache({ maxEntries }), for maxEntries > 0
NewLruCache(maxEntries) ==
  [ maxEntries |-> maxEntries, map |-> << >>,
    head |-> "undefined", tail |-> "undefined",
    stats |-> [size |-> 0, hits |-> 0, misses |-> 0, evictions |-> 0] ]

\* removeNode(node): the statements in their order
removeNode(c, node) ==
  LET prevRelinked(d) ==
        IF d.map[node].prev # "undefined"
        THEN [d EXCEPT !.map[d.map[node].prev].next = d.map[node].next] ELSE d
      nextRelinked(d) ==
        IF d.map[node].next # "undefined"
        THEN [d EXCEPT !.map[d.map[node].next].prev = d.map[node].prev] ELSE d
      headMoved(d) ==
        IF node = d.head THEN [d EXCEPT !.head = d.map[node].next] ELSE d
      tailMoved(d) ==
        IF node = d.tail THEN [d EXCEPT !.tail = d.map[node].prev] ELSE d
      detached(d) ==
        [d EXCEPT !.map[node].prev = "undefined", !.map[node].next = "undefined"]
  IN detached(tailMoved(headMoved(nextRelinked(prevRelinked(c)))))

\* addToFront(node)
addToFront(c, node) ==
  IF c.head = "undefined" THEN [c EXCEPT !.head = node, !.tail = node]
  ELSE [c EXCEPT !.map[node].next = c.head, !.map[c.head].prev = node,
                 !.head = node]

\* moveToFront that leaves the node where it is
moveToFrontNowhere(c, node) == c

\* moveToFront(node)
moveToFront(c, node) ==
  IF node = c.head THEN c ELSE addToFront(removeNode(c, node), node)

\* an eviction that takes the head instead of the tail
evictMostRecentlyUsed(c) ==
  LET deleted(d, key) == [d EXCEPT !.map = [ k \in DOMAIN d.map \ {key} |-> d.map[k] ]]
      counted(d) == [d EXCEPT !.stats.evictions = @ + 1,
                              !.stats.size = Cardinality(DOMAIN d.map)]
  IN IF c.head = "undefined" THEN c
     ELSE counted(deleted(removeNode(c, c.head), c.head))

\* evictLeastRecentlyUsed()
evictLeastRecentlyUsed(c) ==
  LET deleted(d, key) == [d EXCEPT !.map = [ k \in DOMAIN d.map \ {key} |-> d.map[k] ]]
      counted(d) == [d EXCEPT !.stats.evictions = @ + 1,
                              !.stats.size = Cardinality(DOMAIN d.map)]
  IN IF c.tail = "undefined" THEN c
     ELSE counted(deleted(removeNode(c, c.tail), c.tail))

(***************************************************************************)
(* utils/levenshtein: row index j of the source is index j + 1 here.       *)
(***************************************************************************)
\* levenshteinDistance(a, b): two rows, swapped after every row
levenshteinDistance(first, second) ==
  LET a == IF Len(first) < Len(second) THEN second ELSE first
      b == IF Len(first) < Len(second) THEN first ELSE second
      RECURSIVE fillRow(_, _, _, _)
      \* the loop over j of row i
      fillRow(i, j, prevRow, currRow) ==
        IF j > Len(b) THEN currRow
        ELSE fillRow(i, j + 1, prevRow,
               [currRow EXCEPT ![j + 1] =
                  IF a[i] = b[j] THEN prevRow[j]
                  ELSE Min(Min(prevRow[j] + 1, currRow[j] + 1), prevRow[j + 1] + 1)])
      RECURSIVE fillRows(_, _, _)
      \* the loop over i; the filled row becomes prevRow, the other is reused
      fillRows(i, prevRow, currRow) ==
        IF i > Len(a) THEN prevRow[Len(b) + 1]
        ELSE fillRows(i + 1, fillRow(i, 1, prevRow, [currRow EXCEPT ![1] = i]), prevRow)
  IN IF first = second THEN 0
     ELSE IF Len(first) = 0 THEN Len(second)
     ELSE IF Len(second) = 0 THEN Len(first)
     ELSE fillRows(1, [ j \in 1..(Len(b) + 1) |-> j - 1 ],
                      [ j \in 1..(Len(b) + 1) |-> 0 ])

\* fuzzyExpand whose length filter also drops a difference equal to the cap
fuzzyExpandFilteringMore(term, maxDistance, vocab) ==
  LET cappedDistance == Min(IF 1 > maxDistance THEN 1 ELSE maxDistance, 3)
      lengthDiff(vocabTermLower, termLower) ==
        IF Len(vocabTermLower) >= Len(termLower)
        THEN Len(vocabTermLower) - Len(termLower)
        ELSE Len(termLower) - Len(vocabTermLower)
      candidate(vocabTermLower, termLower) ==
        /\ ~(lengthDiff(vocabTermLower, termLower) >= cappedDistance)
        /\ levenshteinDistance(termLower, vocabTermLower) <= cappedDistance
  IN SelectSeq(vocab,
               LAMBDA vocabTerm : candidate(ToLowerCase(vocabTerm), ToLowerCase(term)))

\* fuzzyExpand(term, maxDistance, vocabulary): the candidates in the order of
\* the vocabulary
fuzzyExpand(term, maxDistance, vocab) ==
  LET cappedDistance == Min(IF 1 > maxDistance THEN 1 ELSE maxDistance, 3)
      lengthDiff(vocabTermLower, termLower) ==
        IF Len(vocabTermLower) >= Len(termLower)
        THEN Len(vocabTermLower) - Len(termLower)
        ELSE Len(termLower) - Len(vocabTermLower)
      candidate(vocabTermLower, termLower) ==
        /\ ~(lengthDiff(vocabTermLower, termLower) > cappedDistance)
        /\ levenshteinDistance(termLower, vocabTermLower) <= cappedDistance
  IN SelectSeq(vocab,
               LAMBDA vocabTerm : candidate(ToLowerCase(vocabTerm), ToLowerCase(term)))

(***************************************************************************)
(* SearchFn: construction and in-memory postings.                          *)
(***************************************************************************)
DEFAULT_TERM_CACHE == 2048

\* options.cache?.terms ? { maxEntries: options.cache.terms } : DEFAULT_TERM_CACHE
TermCacheMaxEntries == IF config.cacheTerms # 0 THEN config.cacheTerms
                       ELSE DEFAULT_TERM_CACHE

\* a cache key that leaves the field out
buildCacheKeyWithoutField(field, term) == term

buildCacheKey(field, term) == field \o <<":">> \o term

\* upsertPosting on the pair (postings, dirtyPostings)
upsertPosting(mem, field, term, docId, frequency, metadata) ==
  LET fieldMap == IF Has(mem.postings, field) THEN Get(mem.postings, field) ELSE << >>
      termMap == IF Has(fieldMap, term) THEN Get(fieldMap, term) ELSE << >>
      newTermMap == Put(termMap, docIdToKey(docId),
                        [frequency |-> frequency, metadata |-> metadata])
      dirtyTerms == IF Has(mem.dirtyPostings, field) THEN Get(mem.dirtyPostings, field)
                    ELSE << >>
  IN [ mem EXCEPT
         !.postings = Put(mem.postings, field, Put(fieldMap, term, newTermMap)),
         !.dirtyPostings = Put(mem.dirtyPostings, field, SetAdd(dirtyTerms, term)) ]

\* the body of the inner loop of add / processIngestedDocument
RECURSIVE applyVisits(_, _, _)
applyVisits(mem, docId, visits) ==
  IF visits = << >> THEN mem
  ELSE LET visit == Head(visits)
           upserted == upsertPosting(mem, visit.field, visit.term, docId,
                                     visit.frequency, visit.metadata)
           isPrefix == IF visit.metadata.present THEN visit.metadata.isPrefix ELSE FALSE
           tracked == IF ~isPrefix /\ visit.term \notin Elems(upserted.vocabulary)
                      THEN [ upserted EXCEPT
                               !.vocabulary = Append(@, visit.term),
                               !.vocabularyDirty = TRUE ]
                      ELSE upserted
       IN applyVisits(tracked, docId, Tail(visits))

\* Array.from(termMap.entries()).map(...)
PostingsArray(termMap) ==
  [ i \in 1..Len(termMap) |->
      [ docId |-> termMap[i].k,
        termFrequency |-> termMap[i].v.frequency,
        metadata |-> termMap[i].v.metadata ] ]

updateCaches(cache, posts, dirty) ==
  LET RECURSIVE updateCachesTerms(_, _, _, _, _)
      updateCachesTerms(current, field, fieldMap, dirtyTerms, maxEntries) ==
        LET LruDelete(lruCache, key) == Delete(lruCache, key)
        IN
        IF dirtyTerms = << >> THEN current
        ELSE LET term == Head(dirtyTerms)
                 key == buildCacheKey(field, term)
                 next ==
                   IF ~Has(fieldMap, term) \/ Get(fieldMap, term) = << >>
                   THEN LruDelete(current, key)
                   ELSE LruSet(current, key,
                               [ field |-> field, term |-> term, chunk |-> 0,
                                 postings |-> PostingsArray(Get(fieldMap, term)),
                                 docFrequency |-> Len(Get(fieldMap, term)) ],
                               maxEntries)
             IN updateCachesTerms(next, field, fieldMap, Tail(dirtyTerms), maxEntries)
  IN
  LET RECURSIVE updateCachesFrom(_, _, _, _)
      updateCachesFrom(lruCache, allPostings, dirtyMap, maxEntries) ==
        IF dirtyMap = << >> THEN lruCache
        ELSE LET field == Head(dirtyMap).k
             IN updateCachesFrom(
                  IF ~Has(allPostings, field) THEN lruCache
                  ELSE updateCachesTerms(lruCache, field, Get(allPostings, field), Head(dirtyMap).v,
                                         maxEntries),
                  allPostings, Tail(dirtyMap), maxEntries)
  IN
  updateCachesFrom(cache, posts, dirty, TermCacheMaxEntries)

(***************************************************************************)
(* Chunk payloads.  JSON text is kept as the value it denotes; a key whose *)
(* value is undefined (metadata with present = FALSE) is not written.      *)
(***************************************************************************)
JsonStringify(value) == [jsonText |-> value]

JsonParse(text) == text.jsonText

\* decodeVarint(buffer, offset): [result, pos], or thrown
decodeVarint(buffer, offset) ==
  LET \* x << shift for x < 128: the shift count is taken modulo 32 and the
      \* result is cut to 32 bits
      ShiftLeft(x, shift) ==
        IF shift % 32 < 16
        THEN [ hi |-> (x * 2^(shift % 32)) \div 65536,
               lo |-> (x * 2^(shift % 32)) % 65536 ]
        ELSE [ hi |-> (x * 2^((shift % 32) - 16)) % 65536, lo |-> 0 ]
      RECURSIVE BitOr(_, _, _)
      BitOr(a, b, bits) ==
        IF bits = 0 THEN 0
        ELSE (IF a % 2 = 1 \/ b % 2 = 1 THEN 1 ELSE 0)
             + 2 * BitOr(a \div 2, b \div 2, bits - 1)
      RECURSIVE read(_, _, _)
      read(result, shift, pos) ==
        IF pos >= Len(buffer)
        THEN [thrown |-> TRUE, value |-> result, offset |-> pos]
        ELSE LET byte == buffer[pos + 1]
                 shifted == ShiftLeft(byte % 128, shift)
                 merged == [ hi |-> BitOr(result.hi, shifted.hi, 16),
                             lo |-> BitOr(result.lo, shifted.lo, 16) ]
             IN IF byte < 128
                THEN [thrown |-> FALSE, value |-> merged, offset |-> pos + 1]
                ELSE IF shift + 7 > 35
                THEN [thrown |-> TRUE, value |-> merged, offset |-> pos + 1]
                ELSE read(merged, shift + 7, pos + 1)
  IN read([hi |-> 0, lo |-> 0], 0, offset)

\* encodePostings(values).  The strings persistPostings passes are JSON
\* texts, for which canDeltaEncode is false and the json branch is taken;
\* non-negative integers are sorted and written as varints of their deltas.
encodePostings(values) ==
  LET \* A number is kept as two limbs, value = hi * 65536 + lo with lo < 65536, so
      \* that values of 2^32 and more and the 32-bit operators are computed exactly.
      \* encodeVarint(value, output): the output array after the pushes
      encodeVarint(value, output) ==
        LET \* while (v >= 0x80) { push((v & 0x7f) | 0x80); v >>>= 7 } push(v)
            RECURSIVE push(_, _)
            push(v, out) ==
              IF v.hi > 0 \/ v.lo >= 128
              THEN push([ hi |-> v.hi \div 128,
                          lo |-> (v.lo \div 128) + (v.hi % 128) * 512 ],
                        Append(out, (v.lo % 128) + 128))
              ELSE Append(out, v.lo)
        IN \* value >>> 0 keeps the low 32 bits
           push([hi |-> value.hi % 65536, lo |-> value.lo], output)
  IN
  LET canDeltaEncode == \A i \in 1..Len(values) : "hi" \in DOMAIN values[i]
      \* a - b < 0
      Less(a, b) == a.hi < b.hi \/ (a.hi = b.hi /\ a.lo < b.lo)
      \* [...values].sort((a, b) => a - b)
      RECURSIVE insert(_, _)
      insert(sorted, value) ==
        IF sorted = << >> THEN << value >>
        ELSE IF Less(value, Head(sorted)) THEN << value >> \o sorted
        ELSE << Head(sorted) >> \o insert(Tail(sorted), value)
      RECURSIVE sort(_, _)
      sort(rest, sorted) ==
        IF rest = << >> THEN sorted ELSE sort(Tail(rest), insert(sorted, Head(rest)))
      \* current - previous, for current >= previous
      Minus(current, previous) ==
        IF current.lo >= previous.lo
        THEN [hi |-> current.hi - previous.hi, lo |-> current.lo - previous.lo]
        ELSE [ hi |-> current.hi - previous.hi - 1,
               lo |-> current.lo + 65536 - previous.lo ]
      RECURSIVE encodeFrom(_, _, _)
      encodeFrom(sorted, index, output) ==
        IF index > Len(sorted) THEN output
        ELSE encodeFrom(sorted, index + 1,
               encodeVarint(IF index = 1 THEN sorted[index]
                            ELSE Minus(sorted[index], sorted[index - 1]),
                            output))
  IN IF values = << >>
     THEN [buffer |-> << >>, encoding |-> "delta-varint"]
     ELSE IF ~canDeltaEncode
     THEN [buffer |-> << JsonStringify(values) >>, encoding |-> "json"]
     ELSE [ buffer |-> encodeFrom(sort(values, << >>), 1, << >>),
            encoding |-> "delta-varint" ]

\* decodePostings(buffer, encoding): { postings, encoding }, or thrown
decodePostings(buffer, encoding) ==
  LET \* previous + delta
      Plus(previous, delta) ==
        [ hi |-> previous.hi + delta.hi + ((previous.lo + delta.lo) \div 65536),
          lo |-> (previous.lo + delta.lo) % 65536 ]
      RECURSIVE decodeFrom(_, _)
      decodeFrom(offset, decoded) ==
        LET next(r) ==
              IF r.thrown
              THEN [postings |-> decoded, encoding |-> encoding, thrown |-> TRUE]
              ELSE decodeFrom(r.offset,
                     Append(decoded,
                            IF decoded = << >> THEN r.value
                            ELSE Plus(decoded[Len(decoded)], r.value)))
        IN IF offset < Len(buffer) THEN next(decodeVarint(buffer, offset))
           ELSE [postings |-> decoded, encoding |-> encoding, thrown |-> FALSE]
  IN IF encoding = "json"
     THEN [ postings |-> IF buffer = << >> THEN << >> ELSE JsonParse(buffer[1]),
            encoding |-> encoding, thrown |-> FALSE ]
     ELSE decodeFrom(0, << >>)

\* parsePosting for a string that parses to an object with a docId
parsePosting(raw) ==
  LET parsed == JsonParse(raw)
  IN [ docId |-> parsed.docId,
       termFrequency |-> IF parsed.termFrequency > 0 THEN parsed.termFrequency ELSE 1 ]

(***************************************************************************)
(* Object stores: functions from keys to records.                          *)
(***************************************************************************)
StorePut(store, key, record) ==
  [ x \in DOMAIN store \cup {key} |-> IF x = key THEN record ELSE store[x] ]

StoreDelete(store, key) == [ x \in DOMAIN store \ {key} |-> store[x] ]

EmptyStore == << >>

TermKey(field, term) == << field, term, 0 >>

RECURSIVE putTermChunksBatch(_, _)
putTermChunksBatch(store, chunks) ==
  IF chunks = << >> THEN store
  ELSE putTermChunksBatch(
         StorePut(store, TermKey(Head(chunks).key.field, Head(chunks).key.term),
                  [ payload |-> Head(chunks).payload,
                    docFrequency |-> Head(chunks).docFrequency,
                    encoding |-> Head(chunks).encoding ]),
         Tail(chunks))

RECURSIVE putDocumentsBatch(_, _)
putDocumentsBatch(store, records) ==
  IF records = << >> THEN store
  ELSE putDocumentsBatch(StorePut(store, Head(records).docId,
                                  [payload |-> Head(records).payload]),
                         Tail(records))

(***************************************************************************)
(* persistPostings.                                                        *)
(***************************************************************************)

\* first pass: the chunks to write, the deletions, and the postings map
\* after the empty term maps have been dropped
RECURSIVE collectDirty(_, _, _)
collectDirty(posts, dirty, acc) ==
  LET \* first pass over the dirty terms of one field
      RECURSIVE collectTerms(_, _, _, _)
      collectTerms(field, fieldMap, dirtyTerms, result) ==
        IF dirtyTerms = << >> THEN [result EXCEPT !.fieldMap = fieldMap]
        ELSE LET term == Head(dirtyTerms)
             IN IF ~Has(fieldMap, term) \/ Get(fieldMap, term) = << >>
                THEN collectTerms(field, Delete(fieldMap, term), Tail(dirtyTerms),
                       [result EXCEPT !.deletions = Append(@, [field |-> field, term |-> term])])
                ELSE LET postingsArray == PostingsArray(Get(fieldMap, term))
                         serialized == [ i \in 1..Len(postingsArray) |->
                                           JsonStringify(postingsArray[i]) ]
                         encoded == encodePostings(serialized)
                     IN collectTerms(field, fieldMap, Tail(dirtyTerms),
                          [result EXCEPT !.chunksToWrite =
                             Append(@, [ key |-> [field |-> field, term |-> term, chunk |-> 0],
                                         payload |-> encoded.buffer,
                                         docFrequency |-> Len(postingsArray),
                                         encoding |-> encoded.encoding ])])
  IN
  IF dirty = << >> THEN [acc EXCEPT !.postings = posts]
  ELSE LET field == Head(dirty).k
       IN IF ~Has(posts, field)
          THEN collectDirty(posts, Tail(dirty), acc)
          ELSE LET done == collectTerms(field, Get(posts, field), Head(dirty).v, acc)
               IN collectDirty(Put(posts, field, done.fieldMap), Tail(dirty), done)

RECURSIVE deleteAll(_, _, _)
deleteAll(store, deletions, failed) ==
  LET deleteTermChunksForTerm(objectStore, field, term) == StoreDelete(objectStore, TermKey(field, term))
  IN
  IF deletions = << >> THEN store
  ELSE deleteAll(IF Head(deletions) \in failed THEN store
                 ELSE deleteTermChunksForTerm(store, Head(deletions).field,
                                              Head(deletions).term),
                 Tail(deletions), failed)

\* the object store and the dirty set persistPostings leaves, given what the
\* first pass collected, the store after the deletions and whether a
\* transaction failed (the dirty set is cleared after the awaits)
writeChunks(pass, dirty, deleted, failed) ==
  [ postings |-> pass.postings,
    termsStore |-> IF failed THEN deleted
                   ELSE putTermChunksBatch(deleted, pass.chunksToWrite),
    dirtyPostings |-> IF failed THEN dirty ELSE << >>,
    ok |-> ~failed ]

\* persistPostings that leaves the chunks of the emptied terms in place
persistPostingsKeepingChunks(posts, dirty, store, failedDeletions, putFails) ==
  writeChunks(collectDirty(posts, dirty,
                [ chunksToWrite |-> << >>, deletions |-> << >>,
                  fieldMap |-> << >>, postings |-> posts ]),
              dirty, store, putFails)

\* persistPostings.  failedDeletions are the deleteTermChunksForTerm calls
\* whose transaction fails, putFails tells whether the batch put fails.
persistPostings(posts, dirty, store, failedDeletions, putFails) ==
  LET \* after the first pass: the deletions, then the batch put
      collected(pass) ==
        writeChunks(pass, dirty, deleteAll(store, pass.deletions, failedDeletions),
                    \/ failedDeletions \cap Elems(pass.deletions) # {}
                    \/ putFails /\ pass.chunksToWrite # << >>)
  IN collected(collectDirty(posts, dirty,
                 [ chunksToWrite |-> << >>, deletions |-> << >>,
                   fieldMap |-> << >>, postings |-> posts ]))

(***************************************************************************)
(* Query construction and execution.                                       *)
(***************************************************************************)
RECURSIVE dedupeTokens(_, _, _)
dedupeTokens(field, tokens, fieldTokens) ==
  IF tokens = << >> THEN fieldTokens
  ELSE dedupeTokens(field, Tail(tokens),
         IF Has(fieldTokens, Head(tokens).value) THEN fieldTokens
         ELSE Put(fieldTokens, Head(tokens).value,
                  [field |-> field, term |-> Head(tokens).value, boost |-> 1]))

buildQueryTokens(query, fields, applyNGrams) ==
  LET RECURSIVE buildQueryTokensFrom(_, _, _)
      buildQueryTokensFrom(text, names, withNGrams) ==
        IF names = << >> THEN << >>
        ELSE LET field == Head(names)
                 tokens == IF withNGrams THEN RunOf(config.pipeline, text)
                           ELSE pipelineWithoutNGrams(text)
                 fieldTokens == dedupeTokens(field, tokens, << >>)
             IN [ i \in 1..Len(fieldTokens) |-> fieldTokens[i].v ]
                \o buildQueryTokensFrom(text, Tail(names), withNGrams)
  IN
  buildQueryTokensFrom(query, fields, applyNGrams)

execute(tokens, cache, store) ==
  LET \* the cache after get(key): a hit moves the entry to the front
      LruGet(current, key) ==
        IF Has(current, key)
        THEN << [k |-> key, v |-> Get(current, key)] >> \o Delete(current, key)
        ELSE current
  IN
  LET \* QueryEngine.execute, the retrieval loop: the term cache after the loop
      \* and the chunks that were retrieved
      RECURSIVE executeFrom(_, _, _, _)
      executeFrom(queue, current, objectStore, retrieved) ==
        LET LruPeek(lruCache, key) == Get(lruCache, key)
        IN
        LET LruHas(lruCache, key) == Has(lruCache, key)
        IN
        IF queue = << >> THEN [termCache |-> current, postings |-> retrieved]
        ELSE LET token == Head(queue)
                 cacheKey == buildCacheKey(token.field, token.term)
                 storeKey == TermKey(token.field, token.term)
             IN IF LruHas(current, cacheKey)
                THEN executeFrom(Tail(queue), LruGet(current, cacheKey), objectStore,
                                 Append(retrieved, LruPeek(current, cacheKey)))
                ELSE IF storeKey \notin DOMAIN objectStore
                THEN executeFrom(Tail(queue), current, objectStore, retrieved)
                ELSE LET chunk == objectStore[storeKey]
                         decoded == decodePostings(chunk.payload, chunk.encoding).postings
                         cached == [ field |-> token.field, term |-> token.term, chunk |-> 0,
                                     postings |-> [ i \in 1..Len(decoded) |->
                                                      parsePosting(decoded[i]) ],
                                     docFrequency |-> chunk.docFrequency ]
                     IN executeFrom(Tail(queue),
                                    LruSet(current, cacheKey, cached, TermCacheMaxEntries),
                                    objectStore, Append(retrieved, cached))
  IN
                                 executeFrom(tokens, cache, store, << >>)

\* the documents scorePostings gives a score to
ScoredDocIds(retrieved) ==
  UNION { { retrieved[i].postings[j].docId : j \in 1..Len(retrieved[i].postings) } :
            i \in 1..Len(retrieved) }

(***************************************************************************)
(* SearchFn operations, as functions of the engine state.  E is the record *)
(* of the instance's fields and of the object stores; an operation returns *)
(* the state it leaves and whether it resolved (ok) or rejected.  The      *)
(* argument f names the adapter transactions that fail during the call.    *)
(***************************************************************************)
NoFailure ==
  [ deletions |-> {}, put |-> FALSE, documents |-> FALSE,
    stats |-> FALSE, vocabulary |-> FALSE ]

\* the state of a newly constructed instance over the given object stores
NewInstance(terms, documents, cacheState) ==
  [ postings |-> << >>, dirtyPostings |-> << >>,
    vocabulary |-> << >>, vocabularyDirty |-> FALSE,
    pendingDocuments |-> << >>, termCache |-> << >>, statsLengths |-> << >>,
    termsStore |-> terms, documentsStore |-> documents,
    cacheStateStore |-> cacheState ]

\* loadStats
loadStats(E) ==
  IF "document-stats" \in DOMAIN E.cacheStateStore
  THEN [E EXCEPT !.statsLengths =
          StatsLoad(JsonParse(E.cacheStateStore["document-stats"].payload))]
  ELSE E

\* loadVocabulary
loadVocabulary(E) ==
  LET RECURSIVE addAll(_, _)
      addAll(set, terms) ==
        IF terms = << >> THEN set ELSE addAll(SetAdd(set, Head(terms)), Tail(terms))
  IN
  IF "vocabulary" \in DOMAIN E.cacheStateStore
  THEN [E EXCEPT !.vocabulary =
          addAll(@, JsonParse(E.cacheStateStore["vocabulary"].payload))]
  ELSE E

\* ensureOpen: the first call loads the stats and the vocabulary
ensureOpen(E, isOpen) == IF isOpen THEN E ELSE loadVocabulary(loadStats(E))

\* persistPostings applied to the engine state
persistPostingsOn(E, f) ==
  LET installed(pp) ==
        [ state |-> [E EXCEPT !.postings = pp.postings,
                              !.dirtyPostings = pp.dirtyPostings,
                              !.termsStore = pp.termsStore],
          ok |-> pp.ok ]
  IN installed(persistPostings(E.postings, E.dirtyPostings, E.termsStore,
                               f.deletions, f.put))

\* the part add and processIngestedDocument share: stats, postings, vocabulary
indexIngested(E, ing) ==
  LET installed(mem) ==
        [E EXCEPT !.statsLengths = addDocument(E.statsLengths, ing.docId,
                                               ing.totalLength),
                  !.postings = mem.postings,
                  !.dirtyPostings = mem.dirtyPostings,
                  !.vocabulary = mem.vocabulary,
                  !.vocabularyDirty = mem.vocabularyDirty]
  IN installed(applyVisits([ postings |-> E.postings,
                             dirtyPostings |-> E.dirtyPostings,
                             vocabulary |-> E.vocabulary,
                             vocabularyDirty |-> E.vocabularyDirty ],
                           ing.docId, IngestVisits(ing, 1)))

updateCachesOn(E) ==
  [E EXCEPT !.termCache = updateCaches(E.termCache, E.postings, E.dirtyPostings)]

\* add after ingest
addIngested(E, ing, input, persist, f) ==
  LET \* storage.putDocument of the input's payload
      putDocument(indexed) ==
        IF f.documents THEN [state |-> indexed, ok |-> FALSE]
        ELSE [ state |-> [indexed EXCEPT !.documentsStore =
                            StorePut(@, docIdToKey(input.id),
                                     [payload |-> input.store.payload])],
               ok |-> TRUE ]
      \* with shouldPersist, after the await of persistPostings
      persisted(pp) ==
        IF ~pp.ok \/ ~input.store.given THEN pp ELSE putDocument(pp.state)
      \* without shouldPersist: the payload is queued for the next flush
      queued(indexed) ==
        IF input.store.given
        THEN [indexed EXCEPT !.pendingDocuments =
                Put(@, docIdToKey(input.id), input.store.payload)]
        ELSE indexed
  IN IF ing.totalLength = 0 THEN [state |-> E, ok |-> TRUE]
     ELSE IF persist
     THEN persisted(persistPostingsOn(updateCachesOn(indexIngested(E, ing)), f))
     ELSE [ state |-> queued(updateCachesOn(indexIngested(E, ing))), ok |-> TRUE ]

\* add that persists whatever options.persist says
addAlwaysPersisting(E, input, persist, f) ==
  addIngested(E, IngestOf(config.pipeline, IndexingInputRecord(input)),
              input, TRUE, f)

\* add(input, { persist })
add(E, input, persist, f) ==
  addIngested(E, IngestOf(config.pipeline, IndexingInputRecord(input)),
              input, persist, f)

\* persistVocabulary that leaves vocabularyDirty set
persistVocabularyKeepingDirty(E, fails) ==
  IF fails THEN [state |-> E, ok |-> FALSE]
  ELSE [ state |-> [E EXCEPT
           !.cacheStateStore =
             StorePut(@, "vocabulary", [payload |-> JsonStringify(E.vocabulary)])],
         ok |-> TRUE ]

\* persistVocabulary().then(() => { vocabularyDirty = false })
persistVocabulary(E, fails) ==
  IF fails THEN [state |-> E, ok |-> FALSE]
  ELSE [ state |-> [E EXCEPT
           !.cacheStateStore =
             StorePut(@, "vocabulary", [payload |-> JsonStringify(E.vocabulary)]),
           !.vocabularyDirty = FALSE],
         ok |-> TRUE ]

\* the guard at the top of flush
NothingToPersist(E) ==
  /\ E.dirtyPostings = << >>
  /\ E.pendingDocuments = << >>
  /\ ~E.vocabularyDirty

\* the sub-operations a flush of E starts
FlushOperations(E) ==
  IF NothingToPersist(E) THEN {}
  ELSE (IF E.dirtyPostings # << >> THEN {"terms"} ELSE {})
       \cup (IF E.pendingDocuments # << >> THEN {"documents"} ELSE {})
       \cup {"stats"}
       \cup (IF E.vocabularyDirty THEN {"vocabulary"} ELSE {})

\* Promise.all over the started sub-operations: they write disjoint parts of
\* the state, so the state after all have settled is their composition
RECURSIVE SettleAll(_, _, _, _)
SettleAll(E, operations, f, failed) ==
  LET \* persistStats
      persistStats(S, fails) ==
        IF fails THEN [state |-> S, ok |-> FALSE]
        ELSE [ state |-> [S EXCEPT !.cacheStateStore =
                 StorePut(@, "document-stats",
                          [payload |-> JsonStringify(StatsSnapshot(S.statsLengths))])],
               ok |-> TRUE ]
  IN
  LET \* batchPersistDocuments
      batchPersistDocuments(S, fails) ==
        IF S.pendingDocuments = << >> THEN [state |-> S, ok |-> TRUE]
        ELSE IF fails THEN [state |-> S, ok |-> FALSE]
        ELSE [ state |-> [S EXCEPT
                 !.documentsStore =
                   putDocumentsBatch(@, [ i \in 1..Len(S.pendingDocuments) |->
                                            [ docId |-> S.pendingDocuments[i].k,
                                              payload |-> S.pendingDocuments[i].v ] ]),
                 !.pendingDocuments = << >>],
               ok |-> TRUE ]
  IN
  LET settled(r) ==
        SettleAll(r.state, Tail(operations), f,
                  IF r.ok THEN failed ELSE failed \cup {Head(operations)})
  IN IF operations = << >> THEN [state |-> E, ok |-> failed = {}, failed |-> failed]
     ELSE settled(CASE Head(operations) = "terms" -> persistPostingsOn(E, f)
                    [] Head(operations) = "documents" ->
                         batchPersistDocuments(E, f.documents)
                    [] Head(operations) = "stats" -> persistStats(E, f.stats)
                    [] Head(operations) = "vocabulary" ->
                         persistVocabulary(E, f.vocabulary))

\* flush(): the sub-operations are started in the order of the pushes
flush(E, f) ==
  IF NothingToPersist(E) THEN [state |-> E, ok |-> TRUE, failed |-> {}]
  ELSE SettleAll(E, SelectSeq(<< "terms", "documents", "stats", "vocabulary" >>,
                              LAMBDA op : op \in FlushOperations(E)),
                 f, {})

\* remove, the walk over the in-memory postings
removeFromPostings(E, docId) ==
  LET \* remove, the loop over the term maps of one field
      RECURSIVE removeFromTerms(_, _, _)
      removeFromTerms(entries, docKey, acc) ==
        IF entries = << >> THEN acc
        ELSE LET term == Head(entries).k
                 termMap == Head(entries).v
                 deleted == Has(termMap, docKey)
                 newTermMap == Delete(termMap, docKey)
                 marked == IF deleted
                           THEN [acc EXCEPT !.dirtyTerms = SetAdd(@, term), !.mutated = TRUE]
                           ELSE acc
             IN removeFromTerms(Tail(entries), docKey,
                  [marked EXCEPT !.fieldMap =
                     IF newTermMap = << >> THEN Delete(@, term) ELSE Put(@, term, newTermMap)])
  IN
  LET \* remove, the loop over the fields of the postings map
      RECURSIVE removeFromFields(_, _, _)
      removeFromFields(entries, docKey, acc) ==
        IF entries = << >> THEN acc
        ELSE LET field == Head(entries).k
                 done == removeFromTerms(Head(entries).v, docKey,
                           [ fieldMap |-> Head(entries).v,
                             dirtyTerms |-> IF Has(acc.dirtyPostings, field)
                                            THEN Get(acc.dirtyPostings, field) ELSE << >>,
                             mutated |-> FALSE ])
             IN removeFromFields(Tail(entries), docKey,
                  [ postings |-> Put(acc.postings, field, done.fieldMap),
                    dirtyPostings |-> IF done.mutated
                                      THEN Put(acc.dirtyPostings, field, done.dirtyTerms)
                                      ELSE acc.dirtyPostings,
                    mutated |-> acc.mutated \/ done.mutated ])
  IN
  removeFromFields(E.postings, docIdToKey(docId),
    [ postings |-> E.postings, dirtyPostings |-> E.dirtyPostings,
      mutated |-> FALSE ])

\* remove(docId)
remove(E, docId, f) ==
  LET \* the last await: storage.deleteDocument and the cache clear
      deleteStored(unlisted) ==
        IF f.documents THEN [state |-> unlisted, ok |-> FALSE]
        ELSE [ state |-> [unlisted EXCEPT
                 !.documentsStore = StoreDelete(@, docIdToKey(docId)),
                 !.termCache = LruClear],
               ok |-> TRUE ]
      \* after the await of persistPostings
      persisted(pp, mutated) ==
        IF ~pp.ok THEN pp
        ELSE deleteStored([ (IF mutated THEN [pp.state EXCEPT !.termCache = LruClear]
                             ELSE pp.state)
                            EXCEPT !.statsLengths = removeDocument(@, docId) ])
      \* after the walk over the in-memory postings
      walkedOver(walked) ==
        persisted(
          IF walked.mutated
          THEN persistPostingsOn([E EXCEPT !.postings = walked.postings,
                                           !.dirtyPostings = walked.dirtyPostings], f)
          ELSE [ state |-> [E EXCEPT !.postings = walked.postings,
                                     !.dirtyPostings = walked.dirtyPostings],
                 ok |-> TRUE ],
          walked.mutated)
  IN walkedOver(removeFromPostings(E, docId))

\* getDocument(docId): the payload, or NoStore for undefined
getDocument(E, docId) ==
  IF docIdToKey(docId) \in DOMAIN E.documentsStore
  THEN Store(E.documentsStore[docIdToKey(docId)].payload)
  ELSE NoStore

\* determineSearchMode(query, options); an option that is not given is "undefined"
determineSearchMode(query, options) ==
  LET RECURSIVE trimStart(_)
      trimStart(s) == IF s # << >> /\ Head(s) = " " THEN trimStart(Tail(s)) ELSE s
      RECURSIVE trimEnd(_)
      trimEnd(s) == IF s # << >> /\ s[Len(s)] = " "
                    THEN trimEnd(SubSeq(s, 1, Len(s) - 1)) ELSE s
      modeOfLength(queryLength) ==
        IF queryLength <= 3 THEN "prefix"
        ELSE IF queryLength >= 8 THEN "fuzzy"
        ELSE "exact"
  IN IF options.mode # "undefined" /\ options.mode # "auto" THEN options.mode
     ELSE modeOfLength(Len(trimEnd(trimStart(query))))

\* executeSearch: the mode, effectiveOptions.fuzzy, the tokens, the chunks
\* retrieved and the term cache left; the tokens are built from the query,
\* the fields and applyQueryNGrams alone
executeSearch(E, query, options) ==
  LET effectiveFuzzy(mode) ==
        IF mode = "fuzzy" /\ options.fuzzy = "undefined" THEN "true"
        ELSE options.fuzzy
      executed(tokens) ==
        IF tokens = << >>
        THEN [tokens |-> tokens, termCache |-> E.termCache, postings |-> << >>]
        ELSE [tokens |-> tokens] @@ execute(tokens, E.termCache, E.termsStore)
  IN [ mode |-> determineSearchMode(query, options),
       fuzzy |-> effectiveFuzzy(determineSearchMode(query, options)) ]
     @@ executed(buildQueryTokens(query, options.fields, options.applyQueryNGrams))

\* search(query, { fields }): the ids returned when the limit exceeds their number
search(E, query, fields) ==
  ScoredDocIds(executeSearch(E, query,
                             [ fields |-> fields, mode |-> "undefined",
                               fuzzy |-> "undefined",
                               applyQueryNGrams |-> FALSE ]).postings)

RECURSIVE importEntries(_, _)
importEntries(entries, mem) ==
  LET \* importSnapshot, the loop over snapshot.postings
      RECURSIVE termMapOf(_, _)
      termMapOf(documents, termMap) ==
        IF documents = << >> THEN termMap
        ELSE termMapOf(Tail(documents),
                       Put(termMap, docIdToKey(Head(documents).docId),
                           [ frequency |-> Head(documents).termFrequency,
                             metadata |-> Head(documents).metadata ]))
  IN
  IF entries = << >> THEN mem
  ELSE LET entry == Head(entries)
           fieldMap == IF Has(mem.postings, entry.field)
                       THEN Get(mem.postings, entry.field) ELSE << >>
           dirtyTerms == IF Has(mem.dirtyPostings, entry.field)
                         THEN Get(mem.dirtyPostings, entry.field) ELSE << >>
       IN importEntries(Tail(entries),
            [ postings |-> Put(mem.postings, entry.field,
                               Put(fieldMap, entry.term,
                                   termMapOf(entry.documents, << >>))),
              dirtyPostings |-> Put(mem.dirtyPostings, entry.field,
                                    SetAdd(dirtyTerms, entry.term)) ])

\* importSnapshot(snapshot)
importSnapshot(E, snapshot, f) ==
  LET \* after the loop over snapshot.postings
      imported(mem) ==
        persistPostingsOn([E EXCEPT !.postings = mem.postings,
                                    !.dirtyPostings = mem.dirtyPostings,
                                    !.termCache = LruClear,
                                    !.statsLengths = StatsLoad(snapshot.stats)], f)
  IN imported(importEntries(snapshot.postings,
                            [postings |-> << >>, dirtyPostings |-> << >>]))

\* clear()
clear(E) ==
  [E EXCEPT !.postings = << >>, !.dirtyPostings = << >>, !.termCache = LruClear,
            !.statsLengths = StatsLoad(<< >>),
            !.termsStore = EmptyStore, !.documentsStore = EmptyStore,
            !.cacheStateStore = EmptyStore]

\* processIngestedDocument that queues no stored payload
processIngestedDocumentWithoutStore(E, ing, store) ==
  IF ing.totalLength = 0 THEN E ELSE indexIngested(E, ing)

\* processIngestedDocument(ingest, store)
processIngestedDocument(E, ing, store) ==
  IF ing.totalLength = 0 THEN E
  ELSE IF store.given
  THEN [indexIngested(E, ing) EXCEPT !.pendingDocuments =
          Put(@, docIdToKey(ing.docId), store.payload)]
  ELSE indexIngested(E, ing)

DEFAULT_BATCH_SIZE == 100

\* calculateAdaptiveBatchSize without adaptiveBatching: options.batchSize ?? 100
calculateAdaptiveBatchSize(options) ==
  IF options.batchSizeGiven THEN options.batchSize ELSE DEFAULT_BATCH_SIZE

\* addBulk, the batch loop
RECURSIVE addBulkBatches(_, _, _, _)
addBulkBatches(E, documents, i, options) ==
  LET RECURSIVE processBatch(_, _, _, _)
      processBatch(S, ingested, batch, j) ==
        IF j > Len(ingested) THEN S
        ELSE processBatch(processIngestedDocument(S, ingested[j], batch[j].store),
                          ingested, batch, j + 1)
  IN
  LET \* one batch: ingestBatch, processIngestedDocument for every document,
      \* one updateCaches
      addBatch(batch) ==
        addBulkBatches(
          updateCachesOn(processBatch(E,
            ingestBatch(config.pipeline,
                        [ j \in 1..Len(batch) |-> IndexingInputRecord(batch[j]) ]),
            batch, 1)),
          documents, i + Len(batch), options)
  IN IF i >= Len(documents) THEN E
     ELSE addBatch(SubSeq(documents, i + 1,
                          Min(i + calculateAdaptiveBatchSize(options),
                              Len(documents))))

\* addBulk(documents, options)
addBulk(E, documents, options, f) ==
  flush(addBulkBatches(E, documents, 0, options), f)

(***************************************************************************)
(* The state machine.                                                      *)
(***************************************************************************)
Engine ==
  [ postings |-> postings, dirtyPostings |-> dirtyPostings,
    vocabulary |-> vocabulary, vocabularyDirty |-> vocabularyDirty,
    pendingDocuments |-> pendingDocuments, termCache |-> termCache,
    statsLengths |-> statsLengths,
    termsStore |-> termsStore, documentsStore |-> documentsStore,
    cacheStateStore |-> cacheStateStore ]

\* the engine state once the operation has awaited ensureOpen
Open == ensureOpen(Engine, opened)

Install(E) ==
  /\ UNCHANGED << lru, lruCall, expansion, codec, statsManager, ranked, bulkCall, opening, inMemory >>
  /\ postings' = E.postings
  /\ dirtyPostings' = E.dirtyPostings
  /\ vocabulary' = E.vocabulary
  /\ vocabularyDirty' = E.vocabularyDirty
  /\ pendingDocuments' = E.pendingDocuments
  /\ termCache' = E.termCache
  /\ statsLengths' = E.statsLengths
  /\ termsStore' = E.termsStore
  /\ documentsStore' = E.documentsStore
  /\ cacheStateStore' = E.cacheStateStore

\* the (field, term) pairs the index pipeline produces for an input
IndexPairs(input) ==
  { << visit.field, visit.term >> :
      visit \in Elems(IngestVisits(IngestOf(config.pipeline,
                                            IndexingInputRecord(input)), 1)) }

\* the ids of the documents some persisted chunk or stored document names
PersistedDocKeys(E) ==
  DOMAIN E.documentsStore
  \cup UNION { LET decoded == decodePostings(E.termsStore[key].payload,
                                            E.termsStore[key].encoding).postings
               IN { parsePosting(decoded[i]).docId : i \in 1..Len(decoded) } :
               key \in DOMAIN E.termsStore }

Without(map, key) == [ x \in DOMAIN map \ {key} |-> map[x] ]
With(map, key, val) == [ x \in DOMAIN map \cup {key} |-> IF x = key THEN val ELSE map[x] ]
Overlay(base, top) ==
  [ x \in DOMAIN base \cup DOMAIN top |-> IF x \in DOMAIN top THEN top[x] ELSE base[x] ]

\* at most one operation of a behaviour meets an adapter failure
FailureChoices(deletions, tags) ==
  LET \* the adapter transactions that may fail during one call: none, one of the
      \* deletions, or one of the writes named by tags
      FailureSets(dels, names) ==
        { [ deletions |-> d, put |-> "put" \in t, documents |-> "documents" \in t,
            stats |-> "stats" \in t, vocabulary |-> "vocabulary" \in t ] :
            d \in {{}} \cup { {x} : x \in dels }, t \in {{}} }
        \cup
        { [ deletions |-> {}, put |-> "put" \in t, documents |-> "documents" \in t,
            stats |-> "stats" \in t, vocabulary |-> "vocabulary" \in t ] :
            t \in { {x} : x \in names } }
  IN
  IF faulted THEN {NoFailure} ELSE FailureSets(deletions, tags)

\* an operation rejects exactly when one of its adapter transactions failed
Faulted(r) == faulted \/ ~r.ok

\* the (field, term) pairs with a non-empty doc map
PairsOf(posts) ==
  UNION { { << posts[i].k, posts[i].v[j].k >> :
              j \in { n \in 1..Len(posts[i].v) : posts[i].v[n].v # << >> } } :
          i \in 1..Len(posts) }

Op(name, ok, key, failed) == [op |-> name, ok |-> ok, key |-> key, failed |-> failed]

EngineInit ==
  LET \* SearchFnOptions; cacheTerms is options.cache.terms, 0 when it is not given
      Configs ==
        { [pipeline |-> p, fields |-> << TitleField, BodyField >>, cacheTerms |-> c] :
            p \in PipelineConfigs, c \in {0, 1} }
  IN
  /\ config \in Configs
  /\ postings = << >>
  /\ dirtyPostings = << >>
  /\ vocabulary = << >>
  /\ vocabularyDirty = FALSE
  /\ pendingDocuments = << >>
  /\ termCache = << >>
  /\ statsLengths = << >>
  /\ opened = FALSE
  /\ termsStore = EmptyStore
  /\ documentsStore = EmptyStore
  /\ cacheStateStore = EmptyStore
  /\ lastOp = Op("new", TRUE, << >>, {})
  /\ ops = 0
  /\ live = << >>
  /\ durable = << >>
  /\ unflushed = {}
  /\ volatile = {}
  /\ loaded = {}
  /\ removedScope = << >>
  /\ latestStore = << >>
  /\ faulted = FALSE
  /\ emptied = {}

\* what the variables of the specifications of single components hold while
\* the component is not exercised
Idle ==
  [ lru |-> NewLruCache(1),
    lruCall |-> [ n |-> 0, method |-> "new", key |-> "undefined",
                  value |-> "undefined", result |-> "undefined" ],
    expansion |-> [ term |-> << >>, maxDistance |-> 0, vocabulary |-> << >>,
                    called |-> FALSE, candidates |-> << >> ],
    codec |-> [ values |-> << >>, called |-> FALSE, thrown |-> FALSE,
                buffer |-> << >>, encoding |-> "undefined", postings |-> << >>,
                stored |-> FALSE ],
    flushing |-> [ promise |-> "none",
                   terms |-> [ status |-> "none", chunksToWrite |-> << >>,
                               deletions |-> << >> ],
                   documents |-> [ status |-> "none", documents |-> << >> ],
                   stats |-> [ status |-> "none", stats |-> << >> ],
                   vocabulary |-> [ status |-> "none", vocab |-> << >> ] ],
    statsManager |-> [ manager |-> [lengths |-> << >>, totalLength |-> 0, documentCount |-> 0],
                       call |-> [ n |-> 0, method |-> "new", key |-> << >>,
                                  length |-> 0,
                                  previous |-> [ lengths |-> << >>, totalLength |-> 0,
                                                 documentCount |-> 0 ] ] ],
    ranked |-> [ ranking |-> << >>,
                 limit |-> [given |-> FALSE, value |-> 0],
                 minScore |-> [given |-> FALSE, value |-> 0],
                 searchFn |-> [called |-> FALSE, documents |-> << >>],
                 inMemory |-> [called |-> FALSE, documents |-> << >>] ],
    bulkCall |-> [ method |-> "addBulk", documents |-> << >>,
               options |-> [ adaptiveBatching |-> FALSE,
                             batchSize |-> [given |-> FALSE, value |-> 0],
                             minBatchSize |-> [given |-> FALSE, value |-> 0],
                             maxBatchSize |-> [given |-> FALSE, value |-> 0],
                             maxMemoryMB |-> [given |-> FALSE, value |-> 0],
                             enableCheckpointing |-> FALSE,
                             checkpointInterval |-> [given |-> FALSE, value |-> 0],
                             continueOnError |-> TRUE ],
               raising |-> -1, i |-> 0, batchIndex |-> 0,
               checkpoint |-> [processedCount |-> 0, lastSuccessfulBatch |-> -1,
                               failedDocuments |-> 0],
               batches |-> << >>, checkpoints |-> << >>, flushes |-> 0,
               stopped |-> FALSE, done |-> FALSE ],
    opening |-> [ openPromise |-> [id |-> 0, at |-> "null"], db |-> FALSE,
              statsLoaded |-> FALSE, vocabLoaded |-> FALSE, destroyed |-> FALSE,
              opens |-> 0, statsReads |-> 0, vocabularyReads |-> 0,
              callers |-> [ caller \in {"add", "search", "flush"} |->
                              [pc |-> "idle", promise |-> 0, during |-> "null"] ] ],
    inMemory |-> [ postings |-> << >>, documents |-> << >>, vocabulary |-> << >>,
               fuzzyCache |-> << >>, invalidations |-> 0, n |-> 0,
               call |-> [query |-> << >>, fuzzy |-> 0, tokens |-> << >>,
                         documents |-> {}] ] ]

\* a new engine without edge n-grams; the components of the other
\* specifications idle
Init ==
  /\ EngineInit
  /\ flushing = Idle.flushing
  /\ inMemory = Idle.inMemory
  /\ opening = Idle.opening
  /\ bulkCall = Idle.bulkCall
  /\ ranked = Idle.ranked
  /\ statsManager = Idle.statsManager
  /\ ~config.pipeline.enableEdgeNGrams
  /\ lru = Idle.lru
  /\ lruCall = Idle.lruCall
  /\ expansion = Idle.expansion
  /\ codec = Idle.codec

\* the deletions a persistPostings on E would issue
DeletionsOf(E) ==
  Elems(collectDirty(E.postings, E.dirtyPostings,
          [ chunksToWrite |-> << >>, deletions |-> << >>,
            fieldMap |-> << >>, postings |-> E.postings ]).deletions)

Add(input, persist) ==
  /\ ops < MaxOps
  /\ \E E \in {Open} :
     \E f \in IF ~persist THEN {NoFailure}
              ELSE FailureChoices(
                     DeletionsOf(indexIngested(E, IngestOf(config.pipeline,
                                                 IndexingInputRecord(input)))),
                     {"put"} \cup (IF input.store.given THEN {"documents"} ELSE {})) :
     \E r \in {add(E, input, persist, f)} :
     \E pairs \in {IndexPairs(input)} :
       LET key == docIdToKey(input.id)
           noop == pairs = {}
       IN /\ Install(r.state)
          /\ faulted' = Faulted(r)
          /\ lastOp' = Op(IF persist THEN "add" ELSE "addDeferred", r.ok, key, {})
          /\ live' = IF r.ok /\ ~noop THEN With(live, key, input) ELSE live
          /\ durable' = durable
          /\ unflushed' = IF noop \/ persist THEN unflushed
                          ELSE unflushed \cup {key}
          /\ volatile' = IF noop THEN volatile
                         ELSE IF persist THEN {}
                         ELSE IF key \in PersistedDocKeys(E) THEN volatile
                         ELSE volatile \cup {key}
          /\ loaded' = loaded \cup pairs
          /\ emptied' = emptied \ pairs
          /\ removedScope' = IF noop THEN removedScope ELSE Without(removedScope, key)
          /\ latestStore' = IF r.ok /\ ~noop /\ input.store.given
                            THEN With(latestStore, key, input.store.payload)
                            ELSE latestStore
  /\ opened' = TRUE
  /\ ops' = ops + 1
  /\ UNCHANGED << flushing, config >>

FlushTags(E) ==
  (IF "terms" \in FlushOperations(E) THEN {"put"} ELSE {})
  \cup (FlushOperations(E) \ {"terms"})

Flush ==
  /\ ops < MaxOps
  /\ \E E \in {Open} :
     \E f \in FailureChoices(DeletionsOf(E), FlushTags(E)) :
     \E r \in {flush(E, f)} :
       /\ Install(r.state)
       /\ faulted' = Faulted(r)
       /\ lastOp' = Op("flush", r.ok, << >>, r.failed)
       /\ durable' = IF r.ok THEN Overlay(durable, live) ELSE durable
  /\ unflushed' = {}
  /\ volatile' = {}
  /\ opened' = TRUE
  /\ ops' = ops + 1
  /\ UNCHANGED << flushing, config, live, loaded, removedScope, latestStore, emptied >>

Remove(docId) ==
  /\ ops < MaxOps
  /\ \E E \in {Open} :
     \E walked \in {removeFromPostings(E, docId)} :
     \E f \in FailureChoices(
                IF walked.mutated THEN DeletionsOf(walked) ELSE {},
                (IF walked.mutated THEN {"put"} ELSE {}) \cup {"documents"}) :
     \E r \in {remove(E, docId, f)} :
       LET key == docIdToKey(docId)
       IN /\ Install(r.state)
          /\ faulted' = Faulted(r)
          /\ lastOp' = Op("remove", r.ok, key, {})
          /\ removedScope' = IF r.ok THEN With(removedScope, key, loaded)
                             ELSE removedScope
          /\ live' = Without(live, key)
          /\ durable' = Without(durable, key)
          /\ latestStore' = Without(latestStore, key)
          /\ emptied' = emptied \cup (PairsOf(E.postings) \ PairsOf(r.state.postings))
  /\ unflushed' = {}
  /\ volatile' = {}
  /\ opened' = TRUE
  /\ ops' = ops + 1
  /\ UNCHANGED << flushing, config, loaded >>

Search(query, fields) ==
  /\ ops < MaxOps
  /\ \E E \in {Open} :
     \E r \in {executeSearch(E, query,
                             [ fields |-> fields, mode |-> "undefined",
                               fuzzy |-> "undefined",
                               applyQueryNGrams |-> FALSE ])} :
       /\ Install([E EXCEPT !.termCache = r.termCache])
       /\ loaded' = loaded \cup { << r.postings[i].field, r.postings[i].term >> :
                                  i \in 1..Len(r.postings) }
  /\ lastOp' = Op("search", TRUE, << >>, {})
  /\ opened' = TRUE
  /\ ops' = ops + 1
  /\ UNCHANGED << flushing, config, live, durable, unflushed, volatile, removedScope, latestStore,
                  faulted, emptied >>

\* the instance is dropped and a new one is constructed on the same database
Restart ==
  /\ ops < MaxOps
  /\ Install(NewInstance(termsStore, documentsStore, cacheStateStore))
  /\ opened' = FALSE
  /\ lastOp' = Op("restart", TRUE, << >>, {})
  /\ live' = << >>
  /\ unflushed' = {}
  /\ loaded' = {}
  /\ removedScope' = << >>
  /\ latestStore' = << >>
  /\ emptied' = {}
  /\ ops' = ops + 1
  /\ UNCHANGED << flushing, config, durable, volatile, faulted >>

Clear ==
  /\ ops < MaxOps
  /\ \E E \in {clear(Open)} : Install(E)
  /\ opened' = TRUE
  /\ lastOp' = Op("clear", TRUE, << >>, {})
  /\ live' = << >>
  /\ durable' = << >>
  /\ unflushed' = {}
  /\ latestStore' = << >>
  /\ emptied' = {}
  /\ ops' = ops + 1
  /\ UNCHANGED << flushing, config, volatile, loaded, removedScope, faulted >>

ImportSnapshot(snapshot) ==
  /\ ops < MaxOps
  /\ \E E \in {Open} :
     \E f \in FailureChoices(
                DeletionsOf(importEntries(snapshot.postings,
                              [postings |-> << >>, dirtyPostings |-> << >>])),
                {"put"}) :
     \E r \in {importSnapshot(E, snapshot, f)} :
       /\ Install(r.state)
       /\ faulted' = Faulted(r)
       /\ lastOp' = Op("importSnapshot", r.ok, << >>, {})
  /\ opened' = TRUE
  /\ live' = << >>
  /\ durable' = << >>
  /\ unflushed' = {}
  /\ volatile' = {}
  /\ removedScope' = << >>
  /\ emptied' = {}
  /\ ops' = ops + 1
  /\ UNCHANGED << flushing, config, loaded, latestStore >>

AddBulk(documents, options) ==
  /\ ops < MaxOps
  /\ \E E \in {Open} :
     \E processed \in {addBulkBatches(E, documents, 0, options)} :
     \E f \in FailureChoices(DeletionsOf(processed), FlushTags(processed)) :
     \E r \in {addBulk(E, documents, options, f)} :
     \* the last input of each id in the list
     \E added \in {[ key \in { docIdToKey(documents[i].id) : i \in 1..Len(documents) } |->
                      documents[CHOOSE i \in 1..Len(documents) :
                                  /\ docIdToKey(documents[i].id) = key
                                  /\ \A j \in (i+1)..Len(documents) :
                                       docIdToKey(documents[j].id) # key] ]} :
     \E pairs \in {UNION { IndexPairs(documents[i]) : i \in 1..Len(documents) }} :
       /\ Install(r.state)
       /\ faulted' = Faulted(r)
       /\ lastOp' = Op("addBulk", r.ok, << >>, r.failed)
       /\ live' = Overlay(live, added)
       /\ durable' = IF r.ok THEN Overlay(durable, Overlay(live, added)) ELSE durable
       /\ loaded' = loaded \cup pairs
       /\ emptied' = emptied \ pairs
       /\ removedScope' = [ key \in DOMAIN removedScope \ DOMAIN added |->
                              removedScope[key] ]
       /\ latestStore' =
            Overlay(latestStore,
                    [ key \in { k \in DOMAIN added : added[k].store.given } |->
                        added[key].store.payload ])
  /\ unflushed' = {}
  /\ volatile' = {}
  /\ opened' = TRUE
  /\ ops' = ops + 1
  /\ UNCHANGED << flushing, config >>

Next ==
  \/ \E call \in AddCalls : Add(call[1], call[2])
  \/ Flush
  \/ Remove(NumId(1))
  \/ Search(TextCatDog, config.fields)
  \/ Restart
  \/ Clear
  \/ ImportSnapshot(SnapshotB)
  \/ AddBulk(<< DocB, DocA >>, [batchSizeGiven |-> TRUE, batchSize |-> 1])

Spec == Init /\ [][Next]_vars

(***************************************************************************)
(* What a caller observes.                                                 *)
(***************************************************************************)
\* a new SearchFn instance on the same database, after its first ensureOpen
FreshInstance ==
  ensureOpen(NewInstance(termsStore, documentsStore, cacheStateStore), FALSE)

\* search(term) returns the document, over the field alone and over all fields
Finds(E, key, field, term) ==
  /\ key \in search(E, term, << field >>)
  /\ key \in search(E, term, config.fields)

FlushSucceeded == lastOp.op = "flush" /\ lastOp.ok

(***************************************************************************)
(* Claims.                                                                 *)
(***************************************************************************)
\* C1: after add(input) and a successful flush, searching any term the index
\* pipeline produced for a field of input returns input.id, whatever the
\* pipeline configuration.
C1_IndexedTermsAreSearchable ==
  FlushSucceeded =>
    \A key \in DOMAIN live : \A pair \in IndexPairs(live[key]) :
      Finds(Open, key, pair[1], pair[2])

\* C2: a document added and then flushed is returned by a new instance on the
\* same database for each of its post-pipeline terms; a restart loses only
\* what came after the last successful flush.  Stated for the default
\* pipeline, whose terms the query pipeline leaves as they are.
C2_FlushedDocumentsSurviveRestart ==
  config.pipeline = DefaultPipelineOptions =>
    \A key \in DOMAIN durable : \A pair \in IndexPairs(durable[key]) :
      Finds(FreshInstance, key, pair[1], pair[2])

\* C3: once remove(docId) has completed, no search of the session returns
\* docId for a term that was loaded in the session before the remove, by an
\* add or by a search that fetched it from storage.  Stated for the
\* behaviours in which no adapter call has failed.
C3_RemovedDocumentIsNotReturned ==
  ~faulted =>
    \A key \in DOMAIN removedScope : \A pair \in removedScope[key] :
      key \notin search(Open, pair[2], << pair[1] >>)

\* C4: from add(d, {persist: false}) until the next flush, searching any
\* post-pipeline term of d returns d.id, for every term-cache capacity.
\* Stated for the default pipeline, whose terms the query pipeline leaves as
\* they are.
C4_DeferredAddIsSearchable ==
  config.pipeline = DefaultPipelineOptions =>
    \A key \in unflushed \cap DOMAIN live : \A pair \in IndexPairs(live[key]) :
      Finds(Open, key, pair[1], pair[2])

\* C5: add(d, {persist: false}) writes nothing to the terms and documents
\* stores: while no persisting operation follows, a new instance on the same
\* database returns d.id for no query and has no stored document for it.
C5_DeferredAddWritesNothing ==
  \A key \in volatile :
    /\ key \notin PersistedDocKeys(Engine)
    /\ getDocument(FreshInstance, StrId(key)) = NoStore
    /\ \A query \in Texts : key \notin search(FreshInstance, query, config.fields)

\* C5 witness: a new instance has been opened while a document added with
\* persist: false was never persisted
C5_RestartedWithDeferredAdd ==
  /\ lastOp.op = "restart"
  /\ volatile # {}
  /\ termsStore # EmptyStore

\* the postings of (field, term) a reader decodes from the persisted chunk 0
PersistedPostings(field, term) ==
  IF TermKey(field, term) \in DOMAIN termsStore
  THEN LET chunk == termsStore[TermKey(field, term)]
           decoded == decodePostings(chunk.payload, chunk.encoding).postings
       IN { parsePosting(decoded[i]) : i \in 1..Len(decoded) }
  ELSE {}

\* C6: between operations, every (field, term) whose in-memory doc map
\* differs from the decoded persisted chunk is in the dirty set, and after a
\* successful flush the dirty set is empty.
C6_DirtySetCoversDifferences ==
  LET \* the doc map of (field, term) in memory
      InMemoryPostings(field, term) ==
        IF Has(postings, field) /\ Has(Get(postings, field), term)
        THEN { [docId |-> posting.docId, termFrequency |-> posting.termFrequency] :
               posting \in Elems(PostingsArray(Get(Get(postings, field), term))) }
        ELSE {}
      KnownPairs ==
        { << key[1], key[2] >> : key \in DOMAIN termsStore }
        \cup UNION { { << postings[i].k, postings[i].v[j].k >> :
                         j \in 1..Len(postings[i].v) } : i \in 1..Len(postings) }
      IsDirty(field, term) ==
        Has(dirtyPostings, field) /\ term \in Elems(Get(dirtyPostings, field))
  IN /\ \A pair \in KnownPairs :
          InMemoryPostings(pair[1], pair[2]) # PersistedPostings(pair[1], pair[2])
            => IsDirty(pair[1], pair[2])
     /\ FlushSucceeded => \A i \in 1..Len(dirtyPostings) : dirtyPostings[i].v = << >>

C8_FailedWritesAreRetried ==
  (lastOp.op = "flush" /\ ~lastOp.ok) => lastOp.failed \subseteq FlushOperations(Open)

\* C9: after adds of one id that carry a store payload, persisting or not,
\* the next successful flush leaves getDocument(id) returning the payload of
\* the most recent add.  Stated for the behaviours in which no adapter call
\* has failed.
C9_LatestPayloadWins ==
  (~faulted /\ FlushSucceeded) =>
    \A key \in DOMAIN latestStore :
      getDocument(Open, StrId(key)) = Store(latestStore[key])

\* C10: once remove(docId) has completed, getDocument(docId) is undefined and
\* the document has no stats entry, also after a later flush and also when
\* its payload was queued and unflushed at the remove.  Stated for the
\* behaviours in which no adapter call has failed.
C10_RemovedDocumentStaysRemoved ==
  ~faulted =>
    \A key \in DOMAIN removedScope :
      /\ getDocument(Open, StrId(key)) = NoStore
      /\ ~Has(Open.statsLengths, key)

\* C11: once clear() has completed, the postings map, the dirty set, the term
\* cache, the stats, the vocabulary and the queue of pending stored documents
\* are empty, every object store is empty, and a following flush() writes no
\* stored document and no vocabulary of before the clear.
C11_ClearEmptiesEverything ==
  lastOp.op = "clear" =>
    /\ postings = << >> /\ dirtyPostings = << >> /\ termCache = << >>
    /\ statsLengths = << >> /\ vocabulary = << >> /\ pendingDocuments = << >>
    /\ termsStore = EmptyStore /\ documentsStore = EmptyStore
    /\ cacheStateStore = EmptyStore
    /\ flush(Open, NoFailure).state.documentsStore = EmptyStore
    /\ "vocabulary" \notin DOMAIN flush(Open, NoFailure).state.cacheStateStore

\* C12: once importSnapshot(S) has completed, a search returns only documents
\* that have a posting in S for a queried (field, term): no posting of before
\* the import contributes, wherever it is held.
C12_ImportReplacesIndexedState ==
  (lastOp.op = "importSnapshot" /\ lastOp.ok) =>
    \A query \in Texts :
      search(Open, query, config.fields) \subseteq
        UNION { { docIdToKey(posting.docId) : posting \in Elems(entry.documents) } :
                entry \in { e \in Elems(SnapshotB.postings) :
                              \E token \in Elems(buildQueryTokens(query, config.fields,
                                                                  FALSE)) :
                                token.field = e.field /\ token.term = e.term } }

\* exportSnapshot(): the in-memory postings, field by field and term by term,
\* and the stats snapshot
exportSnapshot(E) ==
  LET documentsOf(termMap) ==
        [ i \in 1..Len(termMap) |->
            [ docId |-> StrId(termMap[i].k),
              termFrequency |-> termMap[i].v.frequency,
              metadata |-> termMap[i].v.metadata ] ]
      termsOf(field, fieldMap) ==
        [ i \in 1..Len(fieldMap) |->
            [ field |-> field, term |-> fieldMap[i].k,
              documents |-> documentsOf(fieldMap[i].v) ] ]
      RECURSIVE fieldsFrom(_)
      fieldsFrom(entries) ==
        IF entries = << >> THEN << >>
        ELSE termsOf(Head(entries).k, Head(entries).v) \o fieldsFrom(Tail(entries))
  IN [ postings |-> fieldsFrom(E.postings),
       stats |-> StatsSnapshot(E.statsLengths) ]

\* C13: importing exportSnapshot() of an engine into a new engine on an empty
\* database with the same configuration gives an engine whose search returns,
\* for every query, what the exporting engine returns; a removed document
\* is not returned by the importing engine.
C13_SnapshotRoundTrip ==
  \A query \in Texts :
    /\ search(importSnapshot(NewInstance(EmptyStore, EmptyStore, EmptyStore),
                             exportSnapshot(Open), NoFailure).state,
              query, config.fields)
       = search(Open, query, config.fields)
    /\ \A key \in DOMAIN removedScope :
         key \notin search(importSnapshot(NewInstance(EmptyStore, EmptyStore,
                                                      EmptyStore),
                                          exportSnapshot(Open), NoFailure).state,
                           query, config.fields)

C15_FlushIsIdempotent ==
  FlushSucceeded =>
    /\ FlushOperations(Open) = {}
    /\ DeletionsOf(Open) = {}
    /\ \A f \in { NoFailure,
                  [ deletions |-> {}, put |-> TRUE, documents |-> TRUE,
                    stats |-> TRUE, vocabulary |-> TRUE ] } :
         flush(Open, f) = [state |-> Engine, ok |-> TRUE, failed |-> {}]

\* a successful flush has written term chunks, a stored document and the
\* vocabulary
C15_FlushedEverything ==
  /\ FlushSucceeded
  /\ termsStore # EmptyStore
  /\ documentsStore # EmptyStore
  /\ "vocabulary" \in DOMAIN cacheStateStore
  /\ unflushed = {} /\ durable # << >>

(***************************************************************************)
(* The LruCache on its own: Date.now() is the number of the call.          *)
(***************************************************************************)
\* a new cache of any capacity the constructor accepts
LruInit ==
  /\ EngineInit
  /\ flushing = Idle.flushing
  /\ inMemory = Idle.inMemory
  /\ opening = Idle.opening
  /\ bulkCall = Idle.bulkCall
  /\ ranked = Idle.ranked
  /\ statsManager = Idle.statsManager
  /\ config.cacheTerms = 0 /\ config.pipeline = DefaultPipelineOptions
  /\ lru \in { NewLruCache(maxEntries) :
                 maxEntries \in { n \in 0..MaxEntries : ~(n <= 0) } }
  /\ lruCall = Idle.lruCall
  /\ expansion = Idle.expansion
  /\ codec = Idle.codec

\* get(key)
CacheGet(key) ==
  /\ lruCall.n < MaxCalls
  /\ IF key \notin DOMAIN lru.map
     THEN /\ lru' = [lru EXCEPT !.stats.misses = @ + 1]
          /\ lruCall' = [ n |-> lruCall.n + 1, method |-> "get", key |-> key,
                          value |-> "undefined", result |-> "undefined" ]
     ELSE /\ lru' = moveToFront([lru EXCEPT !.stats.hits = @ + 1,
                                            !.map[key].lastAccessedAt = lruCall.n + 1,
                                            !.map[key].accessCount = @ + 1],
                                key)
          /\ lruCall' = [ n |-> lruCall.n + 1, method |-> "get", key |-> key,
                          value |-> "undefined", result |-> lru.map[key].value ]
  /\ UNCHANGED << inMemory, opening, bulkCall, ranked, statsManager, flushing, engineVars, expansion, codec >>

\* set(key, value)
CacheSet(key, value) ==
  /\ lruCall.n < MaxCalls
  /\ lru' =
       IF key \in DOMAIN lru.map
       THEN moveToFront([lru EXCEPT !.map[key].value = value,
                                    !.map[key].lastAccessedAt = lruCall.n + 1,
                                    !.map[key].accessCount = @ + 1],
                        key)
       ELSE LET node == [ value |-> value, createdAt |-> lruCall.n + 1,
                          lastAccessedAt |-> lruCall.n + 1, accessCount |-> 1,
                          prev |-> "undefined", next |-> "undefined" ]
                sized(c) == [c EXCEPT !.stats.size = Cardinality(DOMAIN c.map)]
                evicted(c) == IF Cardinality(DOMAIN c.map) > c.maxEntries
                              THEN evictLeastRecentlyUsed(c) ELSE c
            IN evicted(sized(addToFront([lru EXCEPT !.map = (key :> node) @@ @],
                                        key)))
  /\ lruCall' = [ n |-> lruCall.n + 1, method |-> "set", key |-> key,
                  value |-> value, result |-> "undefined" ]
  /\ UNCHANGED << inMemory, opening, bulkCall, ranked, statsManager, flushing, engineVars, expansion, codec >>

\* has(key)
CacheHas(key) ==
  /\ lruCall.n < MaxCalls
  /\ lruCall' = [ n |-> lruCall.n + 1, method |-> "has", key |-> key,
                  value |-> "undefined",
                  result |-> IF key \in DOMAIN lru.map THEN "true" ELSE "false" ]
  /\ UNCHANGED << inMemory, opening, bulkCall, ranked, statsManager, flushing, engineVars, expansion, codec, lru >>

\* delete(key)
CacheDelete(key) ==
  /\ lruCall.n < MaxCalls
  /\ IF key \notin DOMAIN lru.map
     THEN /\ lru' = lru
          /\ lruCall' = [ n |-> lruCall.n + 1, method |-> "delete", key |-> key,
                          value |-> "undefined", result |-> "false" ]
     ELSE /\ \E removed \in {removeNode(lru, key)} :
               lru' = [removed EXCEPT
                         !.map = [ k \in DOMAIN removed.map \ {key} |-> removed.map[k] ],
                         !.stats.size = Cardinality(DOMAIN removed.map \ {key})]
          /\ lruCall' = [ n |-> lruCall.n + 1, method |-> "delete", key |-> key,
                          value |-> "undefined", result |-> "true" ]
  /\ UNCHANGED << inMemory, opening, bulkCall, ranked, statsManager, flushing, engineVars, expansion, codec >>

\* clear()
CacheClear ==
  /\ lruCall.n < MaxCalls
  /\ lru' = [lru EXCEPT !.map = << >>, !.head = "undefined", !.tail = "undefined",
                        !.stats = [size |-> 0, hits |-> 0, misses |-> 0,
                                   evictions |-> 0]]
  /\ lruCall' = [ n |-> lruCall.n + 1, method |-> "clear", key |-> "undefined",
                  value |-> "undefined", result |-> "undefined" ]
  /\ UNCHANGED << inMemory, opening, bulkCall, ranked, statsManager, flushing, engineVars, expansion, codec >>

LruSpec ==
  LruInit /\ [][ \/ \E key \in {"a", "b", "c"} : CacheGet(key)
                 \/ \E key \in {"a", "b", "c"} : \E value \in {"v1", "v2"} :
                      CacheSet(key, value)
                 \/ \E key \in {"a", "b", "c"} : CacheHas(key)
                 \/ \E key \in {"a", "b", "c"} : CacheDelete(key)
                 \/ CacheClear ]_vars

\* C16: whatever the capacity and the calls, the cache holds at most maxEntries
\* entries once a call has returned, in the map and in the list from the head,
\* and after a set(k, v) or a get(k) that found k, k is the head of the list.
C16_SizeBoundAndHeadIsLastTouched ==
  LET RECURSIVE listFrom(_, _)
      \* the keys from a node along next, over at most steps nodes
      listFrom(node, steps) ==
        IF node = "undefined" \/ steps = 0 THEN << >>
        ELSE << node >> \o listFrom(lru.map[node].next, steps - 1)
  IN /\ Cardinality(DOMAIN lru.map) <= lru.maxEntries
     /\ Len(listFrom(lru.head, MaxCalls + 1)) = Cardinality(DOMAIN lru.map)
     /\ (lruCall.method = "set"
         \/ (lruCall.method = "get" /\ lruCall.result # "undefined"))
        => /\ lru.head = lruCall.key
           /\ lruCall.key \in DOMAIN lru.map
           /\ lru.map[lruCall.key].prev = "undefined"
           /\ Head(listFrom(lru.head, MaxCalls + 1)) = lruCall.key

\* a get has found a key that was not the head of a full cache of two entries
C16_HitMovedToFront ==
  /\ lruCall.method = "get" /\ lruCall.result # "undefined"
  /\ lru.maxEntries = 2 /\ Cardinality(DOMAIN lru.map) = 2
  /\ lru.map[lruCall.key].createdAt < lru.map[lru.tail].createdAt

\* C17: a set(k, v) of a key that is absent from a cache holding maxEntries
\* entries evicts exactly one entry, the one least recently touched by set or
\* get, and adds 1 to the evictions counter, and every other entry keeps its
\* value; a set on a key that is present evicts nothing and replaces the value.
C17_SetEvictsLeastRecentlyUsed ==
  [][ (lruCall'.method = "set" /\ lruCall'.n # lruCall.n) =>
        LET key == lruCall'.key
            before == DOMAIN lru.map
            after == DOMAIN lru'.map
            kept(keys) == \A other \in keys \ {key} :
                            /\ other \in after
                            /\ lru'.map[other].value = lru.map[other].value
        IN /\ key \in after /\ lru'.map[key].value = lruCall'.value
           /\ IF key \in before
              THEN /\ after = before
                   /\ lru'.stats.evictions = lru.stats.evictions
                   /\ kept(before)
              ELSE IF Cardinality(before) = lru.maxEntries
              THEN \E victim \in before :
                     /\ after = (before \ {victim}) \cup {key}
                     /\ \A other \in before :
                          lru.map[victim].lastAccessedAt <= lru.map[other].lastAccessedAt
                     /\ lru'.stats.evictions = lru.stats.evictions + 1
                     /\ kept(before \ {victim})
              ELSE /\ after = before \cup {key}
                   /\ lru'.stats.evictions = lru.stats.evictions
                   /\ kept(before) ]_vars

\* the fourth call, a set, has evicted from a cache of two entries the one that
\* no get had touched
C17_EvictedAfterHit ==
  /\ lruCall.method = "set" /\ lruCall.n = 4
  /\ lru.maxEntries = 2 /\ Cardinality(DOMAIN lru.map) = 2
  /\ lru.stats.evictions >= 1 /\ lru.stats.hits >= 1
  /\ lru.map[lruCall.key].accessCount = 1
  /\ lru.map[lru.tail].accessCount > 1

\* C18: add, addBulk and remove keep the vocabulary equal to the set of values
\* of the full (non-prefix) tokens that the index pipeline produces for the
\* documents that are indexed: a step of one of them from a state where the two
\* are equal ends in a state where they are equal.
C18_VocabularyIsFullTokens ==
  [][ LET isPrefix(token) == token.metadata.present /\ token.metadata.isPrefix
          \* the values of the full tokens the documents contribute
          contributed(documents) ==
            UNION { UNION { { token.value :
                                token \in { t \in Elems(RunOf(config.pipeline,
                                                   documents[key].fields[i].v)) :
                                              ~isPrefix(t) } } :
                            i \in 1..Len(documents[key].fields) } :
                    key \in DOMAIN documents }
      IN ( /\ lastOp'.op \in {"add", "addDeferred", "addBulk", "remove"}
           /\ lastOp'.ok /\ ops' # ops
           /\ Elems(vocabulary) = contributed(live) )
         => Elems(vocabulary') = contributed(live') ]_vars

(***************************************************************************)
(* fuzzyExpand on its own: one call with arguments drawn from the words    *)
(* over three characters, two of which differ in case only.                *)
(***************************************************************************)
FuzzyInit ==
  /\ EngineInit
  /\ flushing = Idle.flushing
  /\ inMemory = Idle.inMemory
  /\ opening = Idle.opening
  /\ bulkCall = Idle.bulkCall
  /\ ranked = Idle.ranked
  /\ statsManager = Idle.statsManager
  /\ config.cacheTerms = 0 /\ config.pipeline = DefaultPipelineOptions
  /\ lru = Idle.lru
  /\ lruCall = Idle.lruCall
  /\ codec = Idle.codec
  /\ expansion \in
       { [ term |-> term, maxDistance |-> maxDistance, vocabulary |-> vocab,
           called |-> FALSE, candidates |-> << >> ] :
           term \in UNION { [1..n -> {"c", "t", "C"}] : n \in 0..MaxLen },
           maxDistance \in 0..MaxDistance,
           vocab \in { << >>, << <<"t", "t", "t", "t">>, <<"C", "t">> >>,
                       << <<"C", "t">>, <<"c", "t">>, <<"t">> >> }
                     \cup { << word >> :
                              word \in UNION { [1..n -> {"c", "t", "C"}] :
                                                 n \in 0..(MaxLen + 1) } } }

\* fuzzyExpand(term, maxDistance, new Set(vocabulary))
FuzzyExpand ==
  /\ ~expansion.called
  /\ expansion' = [expansion EXCEPT
                     !.called = TRUE,
                     !.candidates = fuzzyExpand(expansion.term, expansion.maxDistance,
                                                expansion.vocabulary)]
  /\ UNCHANGED << inMemory, opening, bulkCall, ranked, statsManager, flushing, engineVars, lru, lruCall, codec >>

FuzzySpec == FuzzyInit /\ [][FuzzyExpand]_vars

\* C20: fuzzyExpand(t, d, V) returns, in the order and the casing of V, exactly
\* the elements v of V whose edit distance between lower(t) and lower(v), by
\* the recursive definition of the Levenshtein distance, is at most
\* min(max(d, 1), 3).
C20_FuzzyExpandIsComplete ==
  LET RECURSIVE lev(_, _)
      lev(a, b) ==
        IF a = << >> THEN Len(b)
        ELSE IF b = << >> THEN Len(a)
        ELSE IF Head(a) = Head(b) THEN lev(Tail(a), Tail(b))
        ELSE 1 + Min(Min(lev(Tail(a), b), lev(a, Tail(b))), lev(Tail(a), Tail(b)))
      lower(s) == [ i \in 1..Len(s) |-> IF s[i] = "C" THEN "c" ELSE s[i] ]
      bound(d) == Min(IF d > 1 THEN d ELSE 1, 3)
  IN expansion.called =>
       expansion.candidates =
         SelectSeq(expansion.vocabulary,
                   LAMBDA v : lev(lower(expansion.term), lower(v))
                              <= bound(expansion.maxDistance))

\* a call with distance 4 has left out a word at distance 4 and has returned,
\* in its own casing, a word at distance 2
C20_CappedAndCased ==
  /\ expansion.called
  /\ expansion.maxDistance = 4
  /\ expansion.term = <<"c", "c", "c">>
  /\ expansion.vocabulary = << <<"t", "t", "t", "t">>, <<"C", "t">> >>
  /\ expansion.candidates = << <<"C", "t">> >>

\* C19: when the mode of a search resolves to fuzzy (mode 'fuzzy', or mode
\* auto or absent with a trimmed query of 8 or more characters) and no fuzzy
\* option is given, the search also returns every document that the search of
\* a vocabulary term within edit distance 2 of a query term returns in the
\* field of that term.
C19_FuzzyModeExpandsTerms ==
  \A call \in { [query |-> TextCot, mode |-> "fuzzy"],
                [query |-> TextCotDogs, mode |-> "undefined"],
                [query |-> TextCotDogs, mode |-> "auto"] } :
    LET options == [ fields |-> config.fields, mode |-> call.mode,
                     fuzzy |-> "undefined", applyQueryNGrams |-> FALSE ]
        returned(r) ==
          \A token \in Elems(r.tokens) :
            \A expanded \in Elems(fuzzyExpand(token.term, 2, Open.vocabulary)) :
              search(Open, expanded, << token.field >>) \subseteq ScoredDocIds(r.postings)
    IN (determineSearchMode(call.query, options) = "fuzzy")
         => returned(executeSearch(Open, call.query, options))

(***************************************************************************)
(* C21.                                                                    *)
(***************************************************************************)
\* C21: with applyQueryNGrams not set, the query tokens buildQueryTokens builds
\* for a field are the values, in first-occurrence order, of the tokens the
\* configured pipeline produces with only its edge n-gram stage removed.
C21_QueryTokensUseConfiguredPipeline ==
  \A query \in Texts : \A field \in { TitleField, BodyField } :
    LET built == buildQueryTokens(query, << field >>, FALSE)
        configured == dedupeTokens(field,
                        RunOf([config.pipeline EXCEPT !.enableEdgeNGrams = FALSE], query),
                        << >>)
    IN [ i \in 1..Len(built) |-> built[i].term ]
       = [ i \in 1..Len(configured) |-> configured[i].k ]

DEFAULT_CHECKPOINT_INTERVAL == 1000

\* addBulkWithRecovery(documents, options): the state it leaves, whether it
\* resolves, and the checkpoint it resolves with.  raising holds the indices
\* of the documents for which the inner try block throws; on well-formed
\* documents the call in it that can throw is options.onProgress, which runs
\* once the document has been processed.  f names the adapter transactions
\* that fail in the first flush that has something to persist.
addBulkWithRecovery(E, documents, options, raising, f) ==
  LET continueOnError ==
        IF options.continueOnError = "undefined" THEN TRUE
        ELSE options.continueOnError = "true"
      checkpointInterval ==
        IF options.checkpointIntervalGiven THEN options.checkpointInterval
        ELSE DEFAULT_CHECKPOINT_INTERVAL
      entry(document, index) == [index |-> index, docId |-> docIdToKey(document.id)]
      \* the inner loop over the ingested documents of one batch
      RECURSIVE processEach(_, _, _, _, _, _)
      processEach(state, ingested, batch, i, j, failedDocuments) ==
        IF j > Len(ingested)
        THEN [state |-> state, failedDocuments |-> failedDocuments, thrown |-> FALSE]
        ELSE IF (i + j - 1) \in raising
        THEN IF continueOnError
             THEN processEach(processIngestedDocument(state, ingested[j], batch[j].store),
                              ingested, batch, i, j + 1,
                              Append(failedDocuments, entry(batch[j], i + j - 1)))
             ELSE [ state |-> processIngestedDocument(state, ingested[j], batch[j].store),
                    failedDocuments |-> Append(failedDocuments, entry(batch[j], i + j - 1)),
                    thrown |-> TRUE ]
        ELSE processEach(processIngestedDocument(state, ingested[j], batch[j].store),
                         ingested, batch, i, j + 1, failedDocuments)
      \* the batch-level catch: one entry for every document of the batch
      batchEntries(batch, i) == [ j \in 1..Len(batch) |-> entry(batch[j], i + j - 1) ]
      \* the loop over the batches; S is the loop state
      RECURSIVE batches(_)
      batches(S) ==
        LET batch == SubSeq(documents, S.i + 1,
                            Min(S.i + calculateAdaptiveBatchSize(options), Len(documents)))
            caught(state, failedDocuments, processedCount, lastSuccessfulBatch, fails) ==
              LET after == [ state |-> state, f |-> fails,
                             processedCount |-> processedCount,
                             lastSuccessfulBatch |-> lastSuccessfulBatch,
                             failedDocuments |-> failedDocuments \o batchEntries(batch, S.i),
                             i |-> S.i + Len(batch), batchIndex |-> S.batchIndex + 1 ]
              IN IF continueOnError THEN batches(after) ELSE after
            completed(state) ==
              \* updateCaches, the counters and the periodic checkpoint
              LET cached == updateCachesOn(state.state)
                  processedCount == S.processedCount + Len(batch)
                  flushes == /\ options.enableCheckpointing
                             /\ checkpointInterval # 0
                             /\ processedCount % checkpointInterval = 0
                  flushed == IF flushes THEN flush(cached, S.f)
                             ELSE [state |-> cached, ok |-> TRUE]
                  fails == IF flushes /\ ~NothingToPersist(cached) THEN NoFailure ELSE S.f
              IN IF flushed.ok
                 THEN batches([ state |-> flushed.state, f |-> fails,
                                processedCount |-> processedCount,
                                lastSuccessfulBatch |-> S.batchIndex,
                                failedDocuments |-> state.failedDocuments,
                                i |-> S.i + Len(batch), batchIndex |-> S.batchIndex + 1 ])
                 ELSE caught(flushed.state, state.failedDocuments, processedCount,
                             S.batchIndex, fails)
            processed(state) ==
              IF state.thrown
              THEN caught(state.state, state.failedDocuments, S.processedCount,
                          S.lastSuccessfulBatch, S.f)
              ELSE completed(state)
        IN IF S.i >= Len(documents) THEN S
           ELSE processed(processEach(S.state,
                            ingestBatch(config.pipeline,
                              [ j \in 1..Len(batch) |-> IndexingInputRecord(batch[j]) ]),
                            batch, S.i, 1, S.failedDocuments))
      finished(S) ==
        LET flushed == flush(S.state, S.f)
        IN [ state |-> flushed.state, ok |-> flushed.ok,
             checkpoint |-> [ processedCount |-> S.processedCount,
                              lastSuccessfulBatch |-> S.lastSuccessfulBatch,
                              failedDocuments |-> S.failedDocuments ] ]
  IN finished(batches([ state |-> E, f |-> f, processedCount |-> 0,
                        lastSuccessfulBatch |-> -1, failedDocuments |-> << >>,
                        i |-> 0, batchIndex |-> 0 ]))

\* C23: the checkpoint addBulkWithRecovery resolves with holds exactly one
\* entry, with the index and the id, for every document whose processing
\* raised an error (with continueOnError false: for the first of them, where
\* processing stops) and no entry for any other document, and without an
\* adapter failure the call resolves whatever the documents raised.
C23_CheckpointListsExactlyTheFailures ==
  \A continueOnError \in { "undefined", "true", "false" } :
  \A batchSizeGiven \in BOOLEAN :
  \A enableCheckpointing \in BOOLEAN :
  \A raising \in SUBSET {0, 1} :
  \A f \in { NoFailure } \cup (IF faulted THEN {} ELSE { [NoFailure EXCEPT !.put = TRUE] }) :
    LET documents == << DocB, DocA >>
        r == addBulkWithRecovery(Open, documents,
               [ batchSizeGiven |-> batchSizeGiven, batchSize |-> 1,
                 continueOnError |-> continueOnError,
                 enableCheckpointing |-> enableCheckpointing,
                 checkpointIntervalGiven |-> TRUE, checkpointInterval |-> 1 ],
               raising, f)
        failedDocuments == r.checkpoint.failedDocuments
        expected == IF continueOnError = "false" /\ raising # {}
                    THEN { CHOOSE k \in raising : \A other \in raising : k <= other }
                    ELSE raising
    IN /\ f = NoFailure => r.ok
       /\ r.ok =>
            /\ \A k \in expected :
                 /\ Cardinality({ n \in 1..Len(failedDocuments) :
                                    failedDocuments[n].index = k }) = 1
                 /\ \A n \in 1..Len(failedDocuments) :
                      failedDocuments[n].index = k
                        => failedDocuments[n].docId = docIdToKey(documents[k + 1].id)
            /\ \A n \in 1..Len(failedDocuments) : failedDocuments[n].index \in expected

(***************************************************************************)
(* The chunk serializer on its own: encodePostings on a list of numbers    *)
(* and decodePostings on the bytes it produced, or decodePostings on the   *)
(* payload of a stored chunk, which may hold any bytes.                    *)
(***************************************************************************)
\* lists of up to MaxValues non-negative integers, in any order and with
\* duplicates: 0, 1, 127, 128, 16384, 65536, 2^32 - 1, 2^32 and 2^32 + 300;
\* or a stored delta-varint payload of up to MaxBytes bytes, each 0x01, 0x7f,
\* 0x80 or 0xff
CodecInit ==
  /\ EngineInit
  /\ flushing = Idle.flushing
  /\ inMemory = Idle.inMemory
  /\ opening = Idle.opening
  /\ bulkCall = Idle.bulkCall
  /\ ranked = Idle.ranked
  /\ statsManager = Idle.statsManager
  /\ config.cacheTerms = 0 /\ config.pipeline = DefaultPipelineOptions
  /\ lru = Idle.lru
  /\ lruCall = Idle.lruCall
  /\ expansion = Idle.expansion
  /\ codec \in
       { [Idle.codec EXCEPT !.values = values] :
           values \in UNION { [1..n -> { [hi |-> 0, lo |-> 0], [hi |-> 0, lo |-> 1],
                                         [hi |-> 0, lo |-> 127], [hi |-> 0, lo |-> 128],
                                         [hi |-> 0, lo |-> 16384], [hi |-> 1, lo |-> 0],
                                         [hi |-> 65535, lo |-> 65535],
                                         [hi |-> 65536, lo |-> 0],
                                         [hi |-> 65536, lo |-> 300] }] :
                              n \in 0..MaxValues } }
       \cup
       { [Idle.codec EXCEPT !.stored = TRUE, !.buffer = buffer,
                            !.encoding = "delta-varint"] :
           buffer \in UNION { [1..n -> {1, 127, 128, 255}] : n \in 0..MaxBytes } }

\* decodePostings(encodePostings(values).buffer, encoding)
EncodeDecode ==
  /\ ~codec.called /\ ~codec.stored
  /\ \E encoded \in { encodePostings(codec.values) } :
     \E decoded \in { decodePostings(encoded.buffer, encoded.encoding) } :
       codec' = [codec EXCEPT !.called = TRUE, !.thrown = decoded.thrown,
                              !.buffer = encoded.buffer,
                              !.encoding = encoded.encoding,
                              !.postings = decoded.postings]
  /\ UNCHANGED << inMemory, opening, bulkCall, ranked, statsManager, flushing, engineVars, lru, lruCall, expansion >>

\* decodePostings(chunk.payload, "delta-varint") on a stored payload
DecodeStored ==
  /\ ~codec.called /\ codec.stored
  /\ \E decoded \in { decodePostings(codec.buffer, codec.encoding) } :
       codec' = [codec EXCEPT !.called = TRUE, !.thrown = decoded.thrown,
                              !.postings = decoded.postings]
  /\ UNCHANGED << inMemory, opening, bulkCall, ranked, statsManager, flushing, engineVars, lru, lruCall, expansion >>

CodecSpec == CodecInit /\ [][EncodeDecode \/ DecodeStored]_vars

\* C24: encodePostings of a list of non-negative integers reports
\* delta-varint, decodePostings of its bytes returns the list sorted
\* ascending, and the empty list gives no bytes and decodes to the empty list.
C24_DecodeEncodeSorts ==
  (codec.called /\ ~codec.stored) =>
    /\ codec.encoding = "delta-varint"
    /\ ~codec.thrown
    /\ Len(codec.postings) = Len(codec.values)
    /\ \A value \in Elems(codec.values) :
         Cardinality({ i \in 1..Len(codec.postings) : codec.postings[i] = value })
         = Cardinality({ i \in 1..Len(codec.values) : codec.values[i] = value })
    /\ \A i \in 1..(Len(codec.postings) - 1) :
         \/ codec.postings[i].hi < codec.postings[i + 1].hi
         \/ /\ codec.postings[i].hi = codec.postings[i + 1].hi
            /\ codec.postings[i].lo <= codec.postings[i + 1].lo
    /\ codec.values = << >> => codec.buffer = << >> /\ codec.postings = << >>

(***************************************************************************)
(* C25.                                                                    *)
(***************************************************************************)
\* C25: a document that was added and flushed and that a single-term query
\* returns is still returned for that query after add of any other document
\* followed by flush, in the running session and after a restart.
C25_AddKeepsOtherDocuments ==
  \A key \in DOMAIN durable :
    \A pair \in IndexPairs(durable[key]) :
      key \in search(Open, pair[2], << pair[1] >>) =>
        \A other \in { d \in Documents : docIdToKey(d.id) # key } :
          \A persist \in BOOLEAN :
            LET after == flush(add(Open, other, persist, NoFailure).state,
                               NoFailure).state
            IN /\ key \in search(after, pair[2], << pair[1] >>)
               /\ key \in search(ensureOpen(NewInstance(after.termsStore,
                                                        after.documentsStore,
                                                        after.cacheStateStore),
                                            FALSE),
                                 pair[2], << pair[1] >>)

\* C27: remove(X) does not change which other documents a query returns: for
\* every document Y different from X and every query, Y is returned after
\* remove(X) exactly when it was returned before, also when X is an unknown id
\* and Y was added with persist: false and has not been flushed.
C27_RemoveKeepsOtherDocuments ==
  \A docId \in { NumId(1), StrId(<< "2" >>), StrId(<< "9" >>) } :
    \A query \in Texts : \A fields \in { << TitleField >>, config.fields } :
      LET before == search(Open, query, fields)
          after == search(remove(Open, docId, NoFailure).state, query, fields)
      IN \A key \in (before \cup after) \ { docIdToKey(docId) } :
           key \in before <=> key \in after

\* C28: after every successful flush the persisted "document-stats" blob is
\* the serialization of the stats manager's snapshot, also when the only
\* changes since the previous flush were made by remove or by a persisting
\* add, so a restarted engine has the document lengths of the running one.
\* Stated for the behaviours in which no adapter call has failed.
C28_FlushPersistsCurrentStats ==
  ~faulted /\ FlushSucceeded =>
    /\ IF "document-stats" \in DOMAIN cacheStateStore
       THEN cacheStateStore["document-stats"].payload
              = JsonStringify(StatsSnapshot(Open.statsLengths))
       ELSE StatsSnapshot(Open.statsLengths) = << >>
    /\ Elems(FreshInstance.statsLengths) = Elems(Open.statsLengths)

(***************************************************************************)
(* Scores.  A score is kept as the terms of its sum: one contribution per  *)
(* posting, idf(docFrequency) * (d + (k1 + 1) tf / (k1 norm + tf)), times  *)
(* PREFIX_MATCH_PENALTY when the posting's metadata has isPrefix.  Every   *)
(* contribution is positive, so two sums of one contribution that differ   *)
(* in the penalty alone are different numbers.                             *)
(***************************************************************************)

\* searchDetailed(query, { fields }): the score of every document returned
searchDetailed(E, query, fields) ==
  LET \* scorePostings(chunks, documentLengths, averageDocLength), by document, with
      \* the lengths execute collects from the stats manager
      scorePostings(chunks, lengths) ==
        LET RECURSIVE total(_)
            total(entries) == IF entries = << >> THEN 0
                              ELSE Head(entries).v + total(Tail(entries))
            \* getAverageLength(), a ratio
            averageDocLength ==
              IF Len(lengths) = 0 \/ total(lengths) <= 0 THEN [num |-> 1, den |-> 1]
              ELSE [num |-> total(lengths), den |-> Len(lengths)]
            contribution(chunk, posting) ==
              [ docFrequency |-> chunk.docFrequency,
                termFrequency |-> posting.termFrequency,
                docLength |-> IF Has(lengths, posting.docId)
                              THEN [num |-> Get(lengths, posting.docId), den |-> 1]
                              ELSE averageDocLength,
                averageDocLength |-> averageDocLength,
                penalized |-> /\ "metadata" \in DOMAIN posting
                              /\ posting.metadata.present
                              /\ posting.metadata.isPrefix ]
            RECURSIVE accumulate(_, _, _)
            accumulate(i, j, scores) ==
              IF i > Len(chunks) THEN scores
              ELSE IF j > Len(chunks[i].postings) THEN accumulate(i + 1, 1, scores)
              ELSE LET posting == chunks[i].postings[j]
                       sum == IF Has(scores, posting.docId) THEN Get(scores, posting.docId)
                              ELSE << >>
                   IN accumulate(i, j + 1,
                                 Put(scores, posting.docId,
                                     Append(sum, contribution(chunks[i], posting))))
        IN accumulate(1, 1, << >>)
  IN
  scorePostings(executeSearch(E, query,
                              [ fields |-> fields, mode |-> "undefined",
                                fuzzy |-> "undefined",
                                applyQueryNGrams |-> FALSE ]).postings,
                E.statsLengths)

\* an engine whose pipeline has the edge n-gram stage
NGramInit ==
  /\ EngineInit
  /\ flushing = Idle.flushing
  /\ inMemory = Idle.inMemory
  /\ opening = Idle.opening
  /\ bulkCall = Idle.bulkCall
  /\ ranked = Idle.ranked
  /\ statsManager = Idle.statsManager
  /\ config.pipeline.enableEdgeNGrams
  /\ lru = Idle.lru
  /\ lruCall = Idle.lruCall
  /\ expansion = Idle.expansion
  /\ codec = Idle.codec

NGramSpec == NGramInit /\ [][Next]_vars

\* C29: posting metadata round-trips through persistence: after a persisting
\* add, each posting of a term of the document read back from the persisted
\* chunk has the docId, termFrequency and metadata of the posting served from
\* the term cache, and the scores of the two searches are the same.
C29_PersistedPostingsKeepMetadata ==
  (~faulted /\ lastOp.op = "add" /\ lastOp.ok /\ lastOp.key \in DOMAIN live) =>
    \A pair \in IndexPairs(live[lastOp.key]) :
      LET options == [ fields |-> << pair[1] >>, mode |-> "undefined",
                       fuzzy |-> "undefined", applyQueryNGrams |-> FALSE ]
          cached == executeSearch(Open, pair[2], options).postings
          stored == executeSearch([Open EXCEPT !.termCache = LruClear],
                                  pair[2], options).postings
          metadataOf(posting) == IF "metadata" \in DOMAIN posting
                                 THEN posting.metadata ELSE NoMetadata
      IN /\ Len(stored) = Len(cached)
         /\ \A i \in 1..Len(stored) :
              /\ Len(stored[i].postings) = Len(cached[i].postings)
              /\ \A j \in 1..Len(stored[i].postings) :
                   /\ stored[i].postings[j].docId = cached[i].postings[j].docId
                   /\ stored[i].postings[j].termFrequency
                        = cached[i].postings[j].termFrequency
                   /\ metadataOf(stored[i].postings[j])
                        = metadataOf(cached[i].postings[j])
         /\ searchDetailed([Open EXCEPT !.termCache = LruClear], pair[2], << pair[1] >>)
              = searchDetailed(Open, pair[2], << pair[1] >>)

(***************************************************************************)
(* flush() with its suspension points.  The engine runs on one logical     *)
(* executor: flush runs up to its await of Promise.all, each sub-operation *)
(* resumes when its adapter call completes, and an add with persist: false *)
(* may run whenever flush is suspended.  flushing holds the promise flush  *)
(* awaits and, for each sub-operation, what it captured before its await.  *)
(* durable and volatile are kept by the run-to-completion operations only. *)
(***************************************************************************)
\* flush() up to `await Promise.all(flushOperations)`: each sub-operation
\* runs to its first await
BeginFlush ==
  /\ ops < MaxOps
  /\ flushing.promise # "pending"
  /\ \A operation \in DOMAIN flushing \ {"promise"} :
       flushing[operation].status \notin {"deleting", "putting"}
  /\ LET E == Open
         pass == collectDirty(E.postings, E.dirtyPostings,
                   [ chunksToWrite |-> << >>, deletions |-> << >>,
                     fieldMap |-> << >>, postings |-> E.postings ])
         terms == IF E.dirtyPostings = << >> THEN Idle.flushing.terms
                  ELSE [ status |-> IF pass.deletions # << >> THEN "deleting"
                                    ELSE IF pass.chunksToWrite # << >> THEN "putting"
                                    ELSE "done",
                         chunksToWrite |-> pass.chunksToWrite,
                         deletions |-> pass.deletions ]
         documents == IF E.pendingDocuments = << >> THEN Idle.flushing.documents
                      ELSE [ status |-> "putting",
                             documents |-> [ i \in 1..Len(E.pendingDocuments) |->
                                               [ docId |-> E.pendingDocuments[i].k,
                                                 payload |-> E.pendingDocuments[i].v ] ] ]
     IN IF NothingToPersist(E)
        THEN /\ Install(E)
             /\ flushing' = [Idle.flushing EXCEPT !.promise = "resolved"]
             /\ lastOp' = Op("flush", TRUE, << >>, {})
        ELSE /\ Install([E EXCEPT
                  !.postings = IF E.dirtyPostings = << >> THEN @ ELSE pass.postings,
                  !.dirtyPostings = IF terms.status = "done" THEN << >> ELSE @])
             /\ flushing' =
                  [ promise |-> "pending",
                    terms |-> terms,
                    documents |-> documents,
                    stats |-> [ status |-> "putting",
                                stats |-> StatsSnapshot(E.statsLengths) ],
                    vocabulary |-> IF E.vocabularyDirty
                                   THEN [status |-> "putting", vocab |-> E.vocabulary]
                                   ELSE Idle.flushing.vocabulary ]
             /\ lastOp' = Op("flushing", TRUE, << >>, {})
  /\ unflushed' = {}
  /\ opened' = TRUE
  /\ ops' = ops + 1
  /\ UNCHANGED << config, live, durable, volatile, loaded, removedScope,
                  latestStore, faulted, emptied >>

\* the adapter call a sub-operation awaits completes, and the sub-operation
\* runs to its next await or to its end; Promise.all rejects with the first
\* rejection and resolves when every sub-operation has resolved
Settle(operation) ==
  /\ flushing[operation].status \in {"deleting", "putting"}
  /\ \E fails \in IF faulted THEN {FALSE} ELSE BOOLEAN :
       LET E == Engine
           task == flushing[operation]
           status == IF fails THEN "failed"
                     ELSE IF operation = "terms" /\ task.status = "deleting"
                             /\ task.chunksToWrite # << >>
                     THEN "putting"
                     ELSE "done"
           after == [flushing EXCEPT ![operation].status = status]
           resumed ==
             CASE fails -> E
               [] ~fails /\ operation = "terms" /\ task.status = "deleting" ->
                    [E EXCEPT !.termsStore = deleteAll(@, task.deletions, {}),
                              !.dirtyPostings = IF status = "done" THEN << >> ELSE @]
               [] ~fails /\ operation = "terms" /\ task.status = "putting" ->
                    [E EXCEPT !.termsStore = putTermChunksBatch(@, task.chunksToWrite),
                              !.dirtyPostings = << >>]
               [] ~fails /\ operation = "documents" ->
                    [E EXCEPT !.documentsStore = putDocumentsBatch(@, task.documents),
                              !.pendingDocuments = << >>]
               [] ~fails /\ operation = "stats" ->
                    [E EXCEPT !.cacheStateStore =
                       StorePut(@, "document-stats",
                                [payload |-> JsonStringify(task.stats)])]
               [] ~fails /\ operation = "vocabulary" ->
                    [E EXCEPT !.cacheStateStore =
                       StorePut(@, "vocabulary",
                                [payload |-> JsonStringify(task.vocab)]),
                              !.vocabularyDirty = FALSE]
           promise == IF flushing.promise # "pending" THEN flushing.promise
                      ELSE IF fails THEN "rejected"
                      ELSE IF \A other \in DOMAIN after \ {"promise"} :
                                after[other].status \in {"none", "done"}
                      THEN "resolved"
                      ELSE "pending"
       IN /\ Install(resumed)
          /\ flushing' = [after EXCEPT !.promise = promise]
          /\ faulted' = (faulted \/ fails)
          /\ lastOp' = IF promise = flushing.promise THEN lastOp
                       ELSE Op("flush", promise = "resolved", << >>,
                               IF fails THEN {operation} ELSE {})
  /\ UNCHANGED << config, opened, ops, live, durable, unflushed, volatile, loaded,
                  removedScope, latestStore, emptied >>

\* a new engine with the default options
AsyncInit ==
  /\ EngineInit
  /\ flushing = Idle.flushing
  /\ inMemory = Idle.inMemory
  /\ opening = Idle.opening
  /\ bulkCall = Idle.bulkCall
  /\ ranked = Idle.ranked
  /\ statsManager = Idle.statsManager
  /\ config.cacheTerms = 0 /\ config.pipeline = DefaultPipelineOptions
  /\ lru = Idle.lru
  /\ lruCall = Idle.lruCall
  /\ expansion = Idle.expansion
  /\ codec = Idle.codec

\* adds with persist: false interleaved with the steps of flush
AsyncSpec ==
  AsyncInit /\ [][ \/ \E input \in Documents : Add(input, FALSE)
                   \/ BeginFlush
                   \/ \E operation \in {"terms", "documents", "stats", "vocabulary"} :
                        Settle(operation) ]_vars

\* C26: no upserted posting is lost under interleaving: once the
\* persistPostings of a flush has completed, each (field, term) pair of a
\* document added with persist: false since the flush began is persisted with
\* the document's posting or is still in the dirty set.
C26_InterleavedUpsertIsPersistedOrDirty ==
  flushing.terms.status \in {"done", "failed"} =>
    \A key \in unflushed \cap DOMAIN live :
      \A pair \in IndexPairs(live[key]) :
        \/ key \in { posting.docId : posting \in PersistedPostings(pair[1], pair[2]) }
        \/ /\ Has(dirtyPostings, pair[1])
           /\ pair[2] \in Elems(Get(dirtyPostings, pair[1]))

\* C30: when a sub-operation of flush fails, flush rejects only after every
\* other sub-operation it started has completed or failed: once the flush
\* promise has settled, no step writes to a store for that flush or clears a
\* pending mark (a dirty term, a pending document, vocabularyDirty).
C30_NothingHappensAfterFlushSettles ==
  [][ (flushing.promise \in {"resolved", "rejected"}
       /\ flushing'.promise = flushing.promise) =>
        /\ termsStore' = termsStore
        /\ documentsStore' = documentsStore
        /\ cacheStateStore' = cacheStateStore
        /\ \A i \in 1..Len(dirtyPostings) :
             /\ Has(dirtyPostings', dirtyPostings[i].k)
             /\ Elems(dirtyPostings[i].v)
                  \subseteq Elems(Get(dirtyPostings', dirtyPostings[i].k))
        /\ \A i \in 1..Len(pendingDocuments) :
             Has(pendingDocuments', pendingDocuments[i].k)
        /\ vocabularyDirty => vocabularyDirty' ]_vars

\* C39: decodePostings with encoding delta-varint raises an error, and
\* returns no value, for every buffer in which a varint continues past 5
\* bytes (five continuation bytes are followed by a sixth byte of the same
\* value) and for every buffer that ends with a continuation byte.
C39_DecodeRejectsLongAndTruncatedVarints ==
  (codec.stored /\ codec.called) =>
    LET buffer == codec.buffer
        continues(i) == buffer[i] >= 128
        pastFiveBytes == \E i \in 1..(Len(buffer) - 5) :
                           \A j \in i..(i + 4) : continues(j)
        truncated == buffer # << >> /\ continues(Len(buffer))
    IN (pastFiveBytes \/ truncated) => codec.thrown

(***************************************************************************)
(* DocumentStatsManager on its own: lengths, totalLength and              *)
(* documentCount under any sequence of addDocument, removeDocument and     *)
(* load.  (The engine's statsLengths is the lengths map of its manager.)   *)
(***************************************************************************)
\* addDocument that counts a re-added id again
addDocumentCountingAgain(manager, docId, totalLength) ==
  [ lengths |-> Put(manager.lengths, docIdToKey(docId), totalLength),
    totalLength |-> (IF Has(manager.lengths, docIdToKey(docId))
                     THEN manager.totalLength - Get(manager.lengths, docIdToKey(docId))
                     ELSE manager.totalLength) + totalLength,
    documentCount |-> manager.documentCount + 1 ]

\* DocumentStatsManager.addDocument(docId, totalLength) with its counters
addDocumentCounted(manager, docId, totalLength) ==
  LET key == docIdToKey(docId)
      existing == Has(manager.lengths, key)
  IN [ lengths |-> Put(manager.lengths, key, totalLength),
       totalLength |-> (IF existing THEN manager.totalLength - Get(manager.lengths, key)
                        ELSE manager.totalLength) + totalLength,
       documentCount |-> IF existing THEN manager.documentCount
                         ELSE manager.documentCount + 1 ]

StatsInit ==
  /\ EngineInit
  /\ flushing = Idle.flushing
  /\ inMemory = Idle.inMemory
  /\ opening = Idle.opening
  /\ bulkCall = Idle.bulkCall
  /\ ranked = Idle.ranked
  /\ config.cacheTerms = 0 /\ config.pipeline = DefaultPipelineOptions
  /\ lru = Idle.lru
  /\ lruCall = Idle.lruCall
  /\ expansion = Idle.expansion
  /\ codec = Idle.codec
  /\ statsManager = Idle.statsManager

\* addDocument(docId, totalLength)
StatsAddDocument(docId, totalLength) ==
  /\ statsManager.call.n < MaxCalls
  /\ statsManager' =
       [ manager |-> addDocumentCounted(statsManager.manager, docId, totalLength),
         call |-> [ n |-> statsManager.call.n + 1, method |-> "addDocument",
                    key |-> docIdToKey(docId), length |-> totalLength,
                    previous |-> statsManager.manager ] ]
  /\ UNCHANGED << inMemory, opening, bulkCall, ranked, flushing, engineVars, lru, lruCall, expansion, codec >>

\* removeDocument(docId)
StatsRemoveDocument(docId) ==
  /\ statsManager.call.n < MaxCalls
  /\ LET manager == statsManager.manager
         key == docIdToKey(docId)
     IN statsManager' =
          [ manager |-> IF ~Has(manager.lengths, key) THEN manager
                        ELSE [ lengths |-> Delete(manager.lengths, key),
                               totalLength |-> manager.totalLength
                                               - Get(manager.lengths, key),
                               documentCount |->
                                 IF manager.documentCount - 1 > 0
                                 THEN manager.documentCount - 1 ELSE 0 ],
            call |-> [ n |-> statsManager.call.n + 1, method |-> "removeDocument",
                       key |-> key, length |-> 0, previous |-> manager ] ]
  /\ UNCHANGED << inMemory, opening, bulkCall, ranked, flushing, engineVars, lru, lruCall, expansion, codec >>

\* load(entries)
StatsLoadEntries(entries) ==
  /\ statsManager.call.n < MaxCalls
  /\ LET RECURSIVE loadFrom(_, _)
         loadFrom(rest, manager) ==
           IF rest = << >> THEN manager
           ELSE loadFrom(Tail(rest),
                       addDocumentCounted(manager, StrId(Head(rest).docId),
                                          Head(rest).length))
     IN statsManager' =
          [ manager |-> loadFrom(entries, Idle.statsManager.manager),
            call |-> [ n |-> statsManager.call.n + 1, method |-> "load",
                       key |-> << >>, length |-> 0,
                       previous |-> statsManager.manager ] ]
  /\ UNCHANGED << inMemory, opening, bulkCall, ranked, flushing, engineVars, lru, lruCall, expansion, codec >>

StatsSpec ==
  StatsInit /\ [][ \/ \E docId \in {NumId(1), StrId(<< "1" >>), StrId(<< "2" >>)} :
                      \E totalLength \in 1..3 : StatsAddDocument(docId, totalLength)
                   \/ \E docId \in {NumId(1), StrId(<< "1" >>), StrId(<< "2" >>)} :
                        StatsRemoveDocument(docId)
                   \/ \E entries \in
                        { << >>,
                          << [docId |-> << "2" >>, length |-> 1] >>,
                          << [docId |-> << "1" >>, length |-> 2],
                             [docId |-> << "2" >>, length |-> 1],
                             [docId |-> << "1" >>, length |-> 3] >> } :
                        StatsLoadEntries(entries) ]_vars

\* C38: after any sequence of addDocument, removeDocument and load,
\* totalLength is the sum of the stored lengths and documentCount the number
\* of stored ids (1 and "1" are one id); re-adding an id replaces its length
\* and keeps the count; removing an unknown id changes nothing;
\* getAverageLength is totalLength / documentCount, or 1 with no document.
C38_StatsCountersMatchLengths ==
  LET manager == statsManager.manager
      call == statsManager.call
      RECURSIVE sum(_)
      sum(entries) == IF entries = << >> THEN 0
                      ELSE Head(entries).v + sum(Tail(entries))
      \* getAverageLength(), a ratio
      getAverageLength == IF manager.documentCount = 0 THEN [num |-> 1, den |-> 1]
                          ELSE [num |-> manager.totalLength,
                                den |-> manager.documentCount]
  IN /\ manager.totalLength = sum(manager.lengths)
     /\ manager.documentCount = Len(manager.lengths)
     /\ \A i, j \in 1..Len(manager.lengths) :
          manager.lengths[i].k = manager.lengths[j].k => i = j
     /\ (call.method = "addDocument" /\ Has(call.previous.lengths, call.key)) =>
          /\ manager.documentCount = call.previous.documentCount
          /\ Get(manager.lengths, call.key) = call.length
     /\ (call.method = "removeDocument" /\ ~Has(call.previous.lengths, call.key)) =>
          manager = call.previous
     /\ getAverageLength = IF manager.lengths = << >> THEN [num |-> 1, den |-> 1]
                           ELSE [ num |-> sum(manager.lengths),
                                  den |-> Len(manager.lengths) ]

\* the id 1 is added again as "1" with another length while "2" is stored
C38_ReAddedInStringForm ==
  /\ statsManager.call.method = "addDocument"
  /\ Has(statsManager.call.previous.lengths, statsManager.call.key)
  /\ Get(statsManager.call.previous.lengths, statsManager.call.key)
       # statsManager.call.length
  /\ Len(statsManager.manager.lengths) = 2
  /\ statsManager.call.n > 2

(***************************************************************************)
(* The last steps of a search on their own: the limit and the minScore     *)
(* threshold applied to the ranking scorePostings returns, in SearchFn     *)
(* (QueryEngine.execute, then executeSearch) and in InMemorySearchFn.  A   *)
(* ranking is a list of documents in descending order of score, document i *)
(* being the i-th of the ranking; an option that is not given has          *)
(* given = FALSE.                                                          *)
(***************************************************************************)
\* rankings of up to MaxRanked documents with scores 1..3, limits undefined,
\* -1, 0, 1, 2 and 10, thresholds undefined, 0, 2 and 3
RankInit ==
  /\ EngineInit
  /\ flushing = Idle.flushing
  /\ inMemory = Idle.inMemory
  /\ opening = Idle.opening
  /\ bulkCall = Idle.bulkCall
  /\ statsManager = Idle.statsManager
  /\ config.cacheTerms = 0 /\ config.pipeline = DefaultPipelineOptions
  /\ lru = Idle.lru
  /\ lruCall = Idle.lruCall
  /\ expansion = Idle.expansion
  /\ codec = Idle.codec
  /\ ranked \in
       { [Idle.ranked EXCEPT
            !.ranking = [ i \in 1..Len(scores) |-> [docId |-> i, score |-> scores[i]] ],
            !.limit = limit, !.minScore = minScore] :
           scores \in { s \in UNION { [1..n -> 1..3] : n \in {0, 1, 2, 3, MaxRanked} } :
                          \A i \in 1..(Len(s) - 1) : s[i] >= s[i + 1] },
           limit \in { [given |-> FALSE, value |-> 0] }
                     \cup { [given |-> TRUE, value |-> v] : v \in {-1, 0, 1, 2, 10} },
           minScore \in { [given |-> FALSE, value |-> 0] }
                        \cup { [given |-> TRUE, value |-> v] : v \in {0, 2, 3} } }

\* SearchFn.search: execute slices the ranking to options.limit ?? 10, then
\* executeSearch drops the documents below minScore when it is given and > 0
SearchFnSearch ==
  /\ ~ranked.searchFn.called
  /\ LET limit == IF ranked.limit.given THEN ranked.limit.value ELSE 10
         \* Array.prototype.slice(0, end)
         slice(array, end) ==
           SubSeq(array, 1,
                  IF end < 0 THEN (IF Len(array) + end > 0 THEN Len(array) + end ELSE 0)
                  ELSE IF end > Len(array) THEN Len(array) ELSE end)
         documents == slice(ranked.ranking, limit)
     IN ranked' = [ranked EXCEPT !.searchFn =
          [ called |-> TRUE,
            documents |-> IF ranked.minScore.given /\ ranked.minScore.value > 0
                          THEN SelectSeq(documents,
                                         LAMBDA doc : doc.score >= ranked.minScore.value)
                          ELSE documents ]]
  /\ UNCHANGED << inMemory, opening, bulkCall, flushing, engineVars, lru, lruCall, expansion, codec, statsManager >>

\* InMemorySearchFn.search: executeSearch drops the documents below minScore
\* when it is given and > 0, then slices to Math.max(1, options.limit ?? 10)
InMemorySearch ==
  /\ ~ranked.inMemory.called
  /\ LET scored == IF ranked.minScore.given /\ ranked.minScore.value > 0
                   THEN SelectSeq(ranked.ranking,
                                  LAMBDA doc : doc.score >= ranked.minScore.value)
                   ELSE ranked.ranking
         given == IF ranked.limit.given THEN ranked.limit.value ELSE 10
         limit == IF given > 1 THEN given ELSE 1
     IN ranked' = [ranked EXCEPT !.inMemory =
          [ called |-> TRUE,
            documents |-> SubSeq(scored, 1, IF limit > Len(scored) THEN Len(scored)
                                            ELSE limit) ]]
  /\ UNCHANGED << inMemory, opening, bulkCall, flushing, engineVars, lru, lruCall, expansion, codec, statsManager >>

RankSpec == RankInit /\ [][SearchFnSearch \/ InMemorySearch]_vars

\* C33: without a threshold, search of SearchFn and of InMemorySearchFn
\* returns the first max(1, limit) documents of the ranking, 10 when no limit
\* is given: a limit of 0 or below yields exactly one document when one
\* matches, and never more than max(1, limit) documents are returned.
C33_LimitIsClampedToOne ==
  LET given == IF ranked.limit.given THEN ranked.limit.value ELSE 10
      limit == IF given > 1 THEN given ELSE 1
      expected == SubSeq(ranked.ranking, 1,
                         IF limit > Len(ranked.ranking) THEN Len(ranked.ranking)
                         ELSE limit)
  IN ~ranked.minScore.given =>
       /\ ranked.searchFn.called => ranked.searchFn.documents = expected
       /\ ranked.inMemory.called => ranked.inMemory.documents = expected

\* C34: with minScore > 0 and a limit, search returns the first documents, up
\* to the limit, of the ranking without the documents below minScore, and
\* SearchFn and InMemorySearchFn return the same list.
C34_ThresholdThenLimit ==
  LET given == IF ranked.limit.given THEN ranked.limit.value ELSE 10
      limit == IF given > 1 THEN given ELSE 1
      kept == SelectSeq(ranked.ranking, LAMBDA doc : doc.score >= ranked.minScore.value)
      expected == SubSeq(kept, 1, IF limit > Len(kept) THEN Len(kept) ELSE limit)
  IN (ranked.minScore.given /\ ranked.minScore.value > 0) =>
       /\ ranked.searchFn.called => ranked.searchFn.documents = expected
       /\ ranked.inMemory.called => ranked.inMemory.documents = expected
       /\ (ranked.searchFn.called /\ ranked.inMemory.called) =>
            ranked.searchFn.documents = ranked.inMemory.documents

(***************************************************************************)
(* The batch loop of addBulk and addBulkWithRecovery, one iteration at a   *)
(* time.  A document is its size estimate JSON.stringify(doc).length * 2;  *)
(* what processing a batch does to the index is addBulkBatches above.      *)
(* raising is the batch in which processIngestedDocument throws for one    *)
(* document (-1: none); in addBulk that rejects the call.                  *)
(***************************************************************************)
BulkInit ==
  /\ EngineInit
  /\ flushing = Idle.flushing
  /\ inMemory = Idle.inMemory
  /\ opening = Idle.opening
  /\ ranked = Idle.ranked
  /\ statsManager = Idle.statsManager
  /\ config.cacheTerms = 0 /\ config.pipeline = DefaultPipelineOptions
  /\ lru = Idle.lru
  /\ lruCall = Idle.lruCall
  /\ expansion = Idle.expansion
  /\ codec = Idle.codec
  /\ LET Option(values) == { [given |-> FALSE, value |-> 0] }
                           \cup { [given |-> TRUE, value |-> v] : v \in values }
         Fixed == { [ adaptiveBatching |-> FALSE, batchSize |-> batchSize,
                      minBatchSize |-> none, maxBatchSize |-> none,
                      maxMemoryMB |-> none ] :
                      batchSize \in Option({-1, 0, 1, 2, 3}), none \in Option({}) }
         Adaptive == { [ adaptiveBatching |-> TRUE, batchSize |-> none,
                         minBatchSize |-> minBatchSize, maxBatchSize |-> maxBatchSize,
                         maxMemoryMB |-> maxMemoryMB ] :
                         none \in Option({}), minBatchSize \in Option({0, 1, 2}),
                         maxBatchSize \in Option({0, 1, 2}),
                         maxMemoryMB \in Option({-1, 0, 1}) }
         Recovery == { [ enableCheckpointing |-> FALSE, checkpointInterval |-> none,
                         continueOnError |-> continueOnError ] :
                         none \in Option({}), continueOnError \in BOOLEAN }
                     \cup
                     { [ enableCheckpointing |-> TRUE,
                         checkpointInterval |-> checkpointInterval,
                         continueOnError |-> continueOnError ] :
                         checkpointInterval \in Option({1, 2, 3}),
                         continueOnError \in BOOLEAN }
         Merge(a, b) == [ x \in DOMAIN a \cup DOMAIN b |->
                            IF x \in DOMAIN a THEN a[x] ELSE b[x] ]
         Sizes == UNION { [1..n -> {40, 1048576}] : n \in 0..MaxDocuments }
     IN bulkCall \in
          { [Idle.bulkCall EXCEPT !.method = "addBulk", !.documents = documents,
                                  !.options = Merge(batching, Idle.bulkCall.options),
                                  !.raising = raising] :
              documents \in Sizes, batching \in Fixed \cup Adaptive, raising \in {-1, 0} }
          \cup
          { [Idle.bulkCall EXCEPT !.method = "addBulkWithRecovery",
                                  !.documents = documents,
                                  !.options = Merge(batching, recovery),
                                  !.raising = raising] :
              documents \in Sizes, batching \in Fixed \cup Adaptive,
              recovery \in Recovery, raising \in {-1, 0, 1} }

\* one iteration of `while (i < documents.length)`
BulkBatch ==
  LET \* calculateAdaptiveBatchSize(documents, startIndex, options), with every
      \* option of BulkAddOptions
      adaptiveBatchSize(documents, startIndex, options) ==
        LET OrElse(option, default) == IF option.given THEN option.value ELSE default
            maxMemory == OrElse(options.maxMemoryMB, 50) * 1024 * 1024
            minBatch == OrElse(options.minBatchSize, 10)
            maxBatch == OrElse(options.maxBatchSize, 1000)
            RECURSIVE count(_, _, _)
            count(i, batchSize, estimatedMemory) ==
              IF ~(i < Len(documents) /\ batchSize < maxBatch) THEN batchSize
              ELSE IF estimatedMemory + documents[i + 1] > maxMemory /\ batchSize >= minBatch
              THEN batchSize
              ELSE count(i + 1, batchSize + 1, estimatedMemory + documents[i + 1])
        IN IF ~options.adaptiveBatching THEN OrElse(options.batchSize, DEFAULT_BATCH_SIZE)
           ELSE LET counted == count(startIndex, 0, 0)
                IN IF counted > minBatch THEN counted ELSE minBatch
  IN
  /\ ~bulkCall.done /\ ~bulkCall.stopped
  /\ bulkCall.i < Len(bulkCall.documents)
  /\ Len(bulkCall.batches) < MaxBatches
  /\ LET length == Len(bulkCall.documents)
         batchSize == adaptiveBatchSize(bulkCall.documents, bulkCall.i, bulkCall.options)
         \* documents.slice(i, Math.min(i + batchSize, documents.length)).length
         end == Min(bulkCall.i + batchSize, length)
         NonNegative(x) == IF x > 0 THEN x ELSE 0
         batch == NonNegative((IF end < 0 THEN NonNegative(length + end) ELSE end)
                              - bulkCall.i)
         raises == bulkCall.raising = bulkCall.batchIndex /\ batch > 0
         recovering == bulkCall.method = "addBulkWithRecovery"
         thrown == raises /\ (~recovering \/ ~bulkCall.options.continueOnError)
         checkpointInterval ==
           IF bulkCall.options.checkpointInterval.given
           THEN bulkCall.options.checkpointInterval.value
           ELSE DEFAULT_CHECKPOINT_INTERVAL
         processedCount == bulkCall.checkpoint.processedCount + batch
         checkpointing == /\ recovering /\ ~thrown
                          /\ bulkCall.options.enableCheckpointing
                          /\ processedCount % checkpointInterval = 0
     IN bulkCall' =
          [bulkCall EXCEPT
             !.batches = Append(@, batch),
             !.checkpoint =
               IF thrown
               THEN [@ EXCEPT !.failedDocuments =
                                IF recovering THEN @ + 1 + batch ELSE @]
               ELSE [ processedCount |-> processedCount,
                      lastSuccessfulBatch |-> bulkCall.batchIndex,
                      failedDocuments |-> IF raises THEN @.failedDocuments + 1
                                          ELSE @.failedDocuments ],
             !.flushes = IF checkpointing THEN @ + 1 ELSE @,
             !.checkpoints = IF checkpointing THEN Append(@, processedCount) ELSE @,
             !.stopped = thrown,
             !.i = IF thrown THEN @ ELSE @ + batch,
             !.batchIndex = IF thrown THEN @ ELSE @ + 1]
  /\ UNCHANGED << inMemory, opening, flushing, engineVars, lru, lruCall, expansion, codec, statsManager,
                  ranked >>

\* after the loop: the last flush, and the call settles
BulkReturn ==
  /\ ~bulkCall.done
  /\ bulkCall.stopped \/ bulkCall.i >= Len(bulkCall.documents)
  /\ bulkCall' =
       [bulkCall EXCEPT
          !.flushes = IF bulkCall.stopped /\ bulkCall.method = "addBulk" THEN @ ELSE @ + 1,
          !.done = TRUE]
  /\ UNCHANGED << inMemory, opening, flushing, engineVars, lru, lruCall, expansion, codec, statsManager,
                  ranked >>

BulkSpec == BulkInit /\ [][BulkBatch \/ BulkReturn]_vars

\* C35: in addBulkWithRecovery with enableCheckpointing and a
\* checkpointInterval c >= 1, a flush with onCheckpoint has happened for every
\* multiple of c the processed count has reached or passed: after every batch
\* at least floor(processedCount / c) checkpoints have fired, whatever the
\* batch size.
C35_CheckpointEveryInterval ==
  LET c == IF bulkCall.options.checkpointInterval.given
           THEN bulkCall.options.checkpointInterval.value
           ELSE DEFAULT_CHECKPOINT_INTERVAL
      \* a batch size of at least one document
      positive == \/ bulkCall.options.adaptiveBatching
                  \/ ~bulkCall.options.batchSize.given
                  \/ bulkCall.options.batchSize.value >= 1
  IN ( /\ bulkCall.method = "addBulkWithRecovery"
       /\ bulkCall.options.enableCheckpointing
       /\ positive
       /\ \A k \in 1..Len(bulkCall.batches) : bulkCall.batches[k] >= 1
       /\ c >= 1 ) =>
       /\ Len(bulkCall.checkpoints) >= bulkCall.checkpoint.processedCount \div c
       /\ \A m \in 1..bulkCall.checkpoint.processedCount :
            m % c = 0 =>
              \E k \in 1..Len(bulkCall.checkpoints) :
                /\ bulkCall.checkpoints[k] >= m
                /\ bulkCall.checkpoints[k] < m + c

\* C36: every batch addBulk and addBulkWithRecovery take is non-empty and
\* starts where the one before it ended, whatever the values of batchSize,
\* minBatchSize, maxBatchSize and maxMemoryMB, so that the loop ends after at
\* most one iteration for each document.
C36_EveryBatchIsNonEmpty ==
  LET RECURSIVE sum(_, _)
      sum(lengths, k) == IF k = 0 THEN 0 ELSE lengths[k] + sum(lengths, k - 1)
  IN /\ \A k \in 1..Len(bulkCall.batches) : bulkCall.batches[k] >= 1
     /\ ~bulkCall.stopped => bulkCall.i = sum(bulkCall.batches, Len(bulkCall.batches))
     /\ Len(bulkCall.batches) <= Len(bulkCall.documents)

(***************************************************************************)
(* ensureOpen under concurrent callers.  Every operation of SearchFn but   *)
(* destroy starts with `await this.ensureOpen()`; the three callers are    *)
(* three such operations started on one instance.  openPromise.at is the   *)
(* await at which the opening stands ("null": no opening yet), and a       *)
(* caller records the opening it awaits and where that opening stood when  *)
(* the operation was started.  What the two loads read in is loadStats and *)
(* loadVocabulary above.                                                   *)
(***************************************************************************)
OpenInit ==
  /\ EngineInit
  /\ flushing = Idle.flushing
  /\ inMemory = Idle.inMemory
  /\ bulkCall = Idle.bulkCall
  /\ ranked = Idle.ranked
  /\ statsManager = Idle.statsManager
  /\ config.cacheTerms = 0 /\ config.pipeline = DefaultPipelineOptions
  /\ lru = Idle.lru
  /\ lruCall = Idle.lruCall
  /\ expansion = Idle.expansion
  /\ codec = Idle.codec
  /\ opening = Idle.opening

\* ensureOpen with `if (!this.openPromise)` left out: every call starts an
\* opening of its own
CallStartingAnew(caller) ==
  /\ opening.callers[caller].pc = "idle"
  /\ opening' =
       [opening EXCEPT
          !.openPromise = [id |-> @.id + 1, at |-> IF opening.db THEN "done" ELSE "open"],
          !.opens = IF opening.db THEN @ ELSE @ + 1,
          !.callers[caller] = [ pc |-> "awaiting",
                                promise |-> opening.openPromise.id + 1,
                                during |-> opening.openPromise.at ]]
  /\ UNCHANGED << inMemory, flushing, engineVars, lru, lruCall, expansion, codec, statsManager,
                  ranked, bulkCall >>

\* an operation is started: it runs to `await this.openPromise`.  The first
\* one creates the opening, which runs to the await in IndexedDbManager.open
\* with the open request issued.
Call(caller) ==
  /\ opening.callers[caller].pc = "idle"
  /\ LET creates == opening.openPromise.at = "null"
         id == IF creates THEN opening.openPromise.id + 1 ELSE opening.openPromise.id
     IN opening' =
          [opening EXCEPT
             !.openPromise = IF creates THEN [id |-> id, at |-> "open"] ELSE @,
             !.opens = IF creates THEN @ + 1 ELSE @,
             !.callers[caller] = [ pc |-> "awaiting", promise |-> id,
                                   during |-> opening.openPromise.at ]]
  /\ UNCHANGED << inMemory, flushing, engineVars, lru, lruCall, expansion, codec, statsManager,
                  ranked, bulkCall >>

\* the open request settles: on success db is set and loadStats runs to its
\* read of "document-stats"; on error the opening rejects
OpenSettles(ok) ==
  /\ opening.openPromise.at = "open"
  /\ opening' =
       IF ok
       THEN [opening EXCEPT !.db = TRUE,
                            !.openPromise.at = IF opening.statsLoaded THEN "loadVocabulary"
                                               ELSE "loadStats",
                            !.statsReads = IF opening.statsLoaded THEN @ ELSE @ + 1]
       ELSE [opening EXCEPT !.openPromise.at = "rejected"]
  /\ UNCHANGED << inMemory, flushing, engineVars, lru, lruCall, expansion, codec, statsManager,
                  ranked, bulkCall >>

\* the read of loadStats settles: statsLoaded is set and loadVocabulary runs
\* to its read of "vocabulary", which throws in assertDb when the database has
\* been closed meanwhile
StatsSettles(ok) ==
  /\ opening.openPromise.at = "loadStats"
  /\ opening' =
       IF ok
       THEN [opening EXCEPT !.statsLoaded = TRUE,
                            !.openPromise.at = IF opening.vocabLoaded THEN "done"
                                               ELSE IF opening.db THEN "loadVocabulary"
                                               ELSE "rejected",
                            !.vocabularyReads = IF ~opening.vocabLoaded /\ opening.db
                                                THEN @ + 1 ELSE @]
       ELSE [opening EXCEPT !.openPromise.at = "rejected"]
  /\ UNCHANGED << inMemory, flushing, engineVars, lru, lruCall, expansion, codec, statsManager,
                  ranked, bulkCall >>

\* the read of loadVocabulary settles: vocabLoaded is set and the opening
\* resolves
VocabularySettles(ok) ==
  /\ opening.openPromise.at = "loadVocabulary"
  /\ opening' =
       IF ok THEN [opening EXCEPT !.vocabLoaded = TRUE, !.openPromise.at = "done"]
       ELSE [opening EXCEPT !.openPromise.at = "rejected"]
  /\ UNCHANGED << inMemory, flushing, engineVars, lru, lruCall, expansion, codec, statsManager,
                  ranked, bulkCall >>

\* an operation resumes after `await this.openPromise`: it rejects with the
\* opening, and otherwise goes on to the object stores, where assertDb throws
\* when the database has been closed
Resume(caller) ==
  /\ opening.callers[caller].pc = "awaiting"
  /\ opening.openPromise.at \in {"done", "rejected"}
  /\ opening' =
       [opening EXCEPT !.callers[caller].pc =
          IF opening.openPromise.at = "done" /\ opening.db THEN "accessing"
          ELSE "rejected"]
  /\ UNCHANGED << inMemory, flushing, engineVars, lru, lruCall, expansion, codec, statsManager,
                  ranked, bulkCall >>

\* destroy(): deleteDatabase closes the database; it does not call ensureOpen
\* and leaves openPromise as it is
Destroy ==
  /\ ~opening.destroyed
  /\ opening' = [opening EXCEPT !.db = FALSE, !.destroyed = TRUE]
  /\ UNCHANGED << inMemory, flushing, engineVars, lru, lruCall, expansion, codec, statsManager,
                  ranked, bulkCall >>

OpenSpec ==
  OpenInit /\ [][ \/ \E caller \in {"add", "search", "flush"} : Call(caller)
                  \/ \E ok \in BOOLEAN : OpenSettles(ok)
                  \/ \E ok \in BOOLEAN : StatsSettles(ok)
                  \/ \E ok \in BOOLEAN : VocabularySettles(ok)
                  \/ \E caller \in {"add", "search", "flush"} : Resume(caller)
                  \/ Destroy ]_vars

\* C37: however the operations started on one instance interleave, the
\* storage open, the stats load and the vocabulary load each run at most once,
\* every operation awaits that one opening, and an operation goes on to the
\* object stores only once the opening, both loads included, has completed.
C37_OpeningRunsOnce ==
  /\ opening.opens <= 1
  /\ opening.statsReads <= 1
  /\ opening.vocabularyReads <= 1
  /\ \A caller \in DOMAIN opening.callers :
       LET call == opening.callers[caller]
       IN /\ call.pc # "idle" => call.promise = 1 /\ opening.openPromise.id = 1
          /\ call.pc = "accessing" =>
               /\ opening.openPromise.at = "done"
               /\ opening.statsLoaded /\ opening.vocabLoaded

\* two operations reached the object stores: the one that created the opening
\* and one started while loadStats was reading
C37_StartedDuringTheLoads ==
  \E first, second \in DOMAIN opening.callers :
    /\ opening.callers[first].pc = "accessing"
    /\ opening.callers[first].during = "null"
    /\ opening.callers[second].pc = "accessing"
    /\ opening.callers[second].during = "loadStats"
    /\ opening.opens = 1 /\ opening.statsReads = 1 /\ opening.vocabularyReads = 1

(***************************************************************************)
(* InMemorySearchFn: add, remove, clear, importSnapshot and search with    *)
(* fuzzy expansion.  The instance is constructed with the pipeline and the *)
(* fields of config.  A Map is a list of [k, v] in insertion order and the *)
(* vocabulary Set a list in insertion order.  The statistics of the        *)
(* instance are a DocumentStatsManager (StatsSpec) and the limit and       *)
(* minScore steps of a search are InMemorySearch; a search here returns    *)
(* the set of documents that are scored.  invalidations counts the calls   *)
(* of fuzzyCache.clear() that dropped an entry.                            *)
(***************************************************************************)
MemoryInit ==
  /\ EngineInit
  /\ flushing = Idle.flushing
  /\ opening = Idle.opening
  /\ bulkCall = Idle.bulkCall
  /\ ranked = Idle.ranked
  /\ statsManager = Idle.statsManager
  /\ config.cacheTerms = 0
  /\ config.pipeline.stopWordsGiven = FALSE
  /\ lru = Idle.lru
  /\ lruCall = Idle.lruCall
  /\ expansion = Idle.expansion
  /\ codec = Idle.codec
  /\ inMemory = Idle.inMemory

\* executeSearch(query, {fuzzy}) on the instance M: the fuzzy cache after the
\* call, the query tokens buildQueryTokens returns (boost in tenths), and the
\* ids of the documents with a posting under one of them
memoryExecuteSearch(M, query, fuzzyDistance) ==
  LET getPostingKey(field, term) == field \o << ":", ":" >> \o term
      getCachedFuzzyExpansion(cache, term, distance) ==
        LET cacheKey == term \o << ":" >> \o << ToString(distance) >>
            computed == fuzzyExpand(term, distance, M.vocabulary)
            set == Put(cache, cacheKey, computed)
        IN IF Has(cache, cacheKey)
           THEN [fuzzyCache |-> cache, expansion |-> Get(cache, cacheKey)]
           ELSE [ fuzzyCache |-> IF Len(set) > 1000 THEN Tail(set) ELSE set,
                  expansion |-> computed ]
      \* the loop over the terms of one token
      RECURSIVE perTerm(_, _, _, _)
      perTerm(tokenMap, field, value, terms) ==
        IF terms = << >> THEN tokenMap
        ELSE perTerm(IF Has(tokenMap, getPostingKey(field, Head(terms))) THEN tokenMap
                     ELSE Put(tokenMap, getPostingKey(field, Head(terms)),
                              [ field |-> field, term |-> Head(terms),
                                boost |-> IF Head(terms) = value THEN 10 ELSE 8 ]),
                     field, value, Tail(terms))
      \* the loop over the tokens of one field
      RECURSIVE perToken(_, _, _)
      perToken(S, field, tokens) ==
        IF tokens = << >> THEN S
        ELSE LET cached == IF fuzzyDistance > 0
                           THEN getCachedFuzzyExpansion(S.fuzzyCache, Head(tokens).value,
                                                        fuzzyDistance)
                           ELSE [ fuzzyCache |-> S.fuzzyCache,
                                  expansion |-> << Head(tokens).value >> ]
             IN perToken([ fuzzyCache |-> cached.fuzzyCache,
                           tokenMap |-> perTerm(S.tokenMap, field, Head(tokens).value,
                                                cached.expansion) ],
                         field, Tail(tokens))
      \* the loop over the fields; pipelineWithoutNGrams keeps every token of
      \* pipeline.run, no stage setting metadata.isNGram
      RECURSIVE perField(_, _)
      perField(S, fields) ==
        IF fields = << >> THEN S
        ELSE perField(perToken(S, Head(fields), RunOf(config.pipeline, query)),
                      Tail(fields))
      built == perField([fuzzyCache |-> M.fuzzyCache, tokenMap |-> << >>], config.fields)
      tokens == [ i \in 1..Len(built.tokenMap) |-> built.tokenMap[i].v ]
      docMap(token) == Get(M.postings, getPostingKey(token.field, token.term))
  IN [ fuzzyCache |-> built.fuzzyCache,
       tokens |-> tokens,
       documents |->
         UNION { { docMap(tokens[i])[j].k : j \in 1..Len(docMap(tokens[i])) } :
                 i \in { n \in 1..Len(tokens) :
                           Has(M.postings, getPostingKey(tokens[n].field,
                                                         tokens[n].term)) } } ]

\* add(input) that leaves the fuzzy cache as it is
MemoryAddKeepingFuzzyCache(input) ==
  /\ inMemory.n < MaxMemoryCalls
  /\ LET getPostingKey(field, term) == field \o << ":", ":" >> \o term
         ingested == IngestOf(config.pipeline, IndexingInputRecord(input))
         RECURSIVE visit(_, _)
         visit(M, visits) ==
           IF visits = << >> THEN M
           ELSE LET v == Head(visits)
                    key == getPostingKey(v.field, v.term)
                    entry == IF Has(M.postings, key) THEN Get(M.postings, key) ELSE << >>
                    isPrefix == IF v.metadata.present THEN v.metadata.isPrefix ELSE FALSE
                    upserted ==
                      [M EXCEPT !.postings =
                         Put(@, key, Put(entry, docIdToKey(input.id),
                                         [frequency |-> v.frequency,
                                          metadata |-> v.metadata]))]
                IN visit(IF isPrefix THEN upserted
                         ELSE [upserted EXCEPT
                                 !.vocabulary = IF v.term \in Elems(@) THEN @
                                                ELSE Append(@, v.term)],
                         Tail(visits))
         visited == visit(inMemory, IngestVisits(ingested, 1))
     IN inMemory' =
          IF ingested.totalLength = 0 THEN [inMemory EXCEPT !.n = @ + 1]
          ELSE [visited EXCEPT
                  !.documents = IF input.store.given
                                THEN Put(@, docIdToKey(input.id), input.store.payload)
                                ELSE @,
                  !.n = @ + 1]
  /\ UNCHANGED << flushing, engineVars, lru, lruCall, expansion, codec, statsManager,
                  ranked, bulkCall, opening >>

\* add(input)
MemoryAdd(input) ==
  /\ inMemory.n < MaxMemoryCalls
  /\ LET getPostingKey(field, term) == field \o << ":", ":" >> \o term
         ingested == IngestOf(config.pipeline, IndexingInputRecord(input))
         RECURSIVE visit(_, _)
         visit(M, visits) ==
           IF visits = << >> THEN M
           ELSE LET v == Head(visits)
                    key == getPostingKey(v.field, v.term)
                    entry == IF Has(M.postings, key) THEN Get(M.postings, key) ELSE << >>
                    isPrefix == IF v.metadata.present THEN v.metadata.isPrefix ELSE FALSE
                    upserted ==
                      [M EXCEPT !.postings =
                         Put(@, key, Put(entry, docIdToKey(input.id),
                                         [frequency |-> v.frequency,
                                          metadata |-> v.metadata]))]
                IN visit(IF isPrefix THEN upserted
                         ELSE [upserted EXCEPT
                                 !.vocabulary = IF v.term \in Elems(@) THEN @
                                                ELSE Append(@, v.term),
                                 !.fuzzyCache = << >>,
                                 !.invalidations = IF M.fuzzyCache # << >> THEN @ + 1
                                                   ELSE @],
                         Tail(visits))
         visited == visit(inMemory, IngestVisits(ingested, 1))
     IN inMemory' =
          IF ingested.totalLength = 0 THEN [inMemory EXCEPT !.n = @ + 1]
          ELSE [visited EXCEPT
                  !.documents = IF input.store.given
                                THEN Put(@, docIdToKey(input.id), input.store.payload)
                                ELSE @,
                  !.n = @ + 1]
  /\ UNCHANGED << flushing, engineVars, lru, lruCall, expansion, codec, statsManager,
                  ranked, bulkCall, opening >>

\* remove(docId): the vocabulary and the fuzzy cache stay as they are
MemoryRemove(docId) ==
  /\ inMemory.n < MaxMemoryCalls
  /\ LET docKey == docIdToKey(docId)
         without(map) == SelectSeq(map, LAMBDA e : e.k # docKey)
         deleted == [ i \in 1..Len(inMemory.postings) |->
                        [inMemory.postings[i] EXCEPT !.v = without(@)] ]
     IN inMemory' =
          [inMemory EXCEPT
             !.postings = SelectSeq(deleted, LAMBDA e : e.v # << >>),
             !.documents = without(@),
             !.n = @ + 1]
  /\ UNCHANGED << flushing, engineVars, lru, lruCall, expansion, codec, statsManager,
                  ranked, bulkCall, opening >>

\* clear()
MemoryClear ==
  /\ inMemory.n < MaxMemoryCalls
  /\ inMemory' =
       [inMemory EXCEPT
          !.postings = << >>, !.documents = << >>, !.vocabulary = << >>,
          !.fuzzyCache = << >>,
          !.invalidations = IF inMemory.fuzzyCache # << >> THEN @ + 1 ELSE @,
          !.n = @ + 1]
  /\ UNCHANGED << flushing, engineVars, lru, lruCall, expansion, codec, statsManager,
                  ranked, bulkCall, opening >>

\* importSnapshot(snapshot); snapshot.vocabulary is optional
MemoryImportSnapshot(snapshot) ==
  /\ inMemory.n < MaxMemoryCalls
  /\ LET getPostingKey(field, term) == field \o << ":", ":" >> \o term
         RECURSIVE docMapOf(_)
         docMapOf(documents) ==
           IF documents = << >> THEN << >>
           ELSE Put(docMapOf(SubSeq(documents, 1, Len(documents) - 1)),
                    docIdToKey(documents[Len(documents)].docId),
                    [ frequency |-> documents[Len(documents)].termFrequency,
                      metadata |-> documents[Len(documents)].metadata ])
         RECURSIVE postingsOf(_)
         postingsOf(entries) ==
           IF entries = << >> THEN << >>
           ELSE Put(postingsOf(SubSeq(entries, 1, Len(entries) - 1)),
                    getPostingKey(entries[Len(entries)].field, entries[Len(entries)].term),
                    docMapOf(entries[Len(entries)].documents))
         RECURSIVE addAll(_, _)
         addAll(set, terms) ==
           IF terms = << >> THEN set
           ELSE addAll(IF Head(terms) \in Elems(set) THEN set ELSE Append(set, Head(terms)),
                       Tail(terms))
     IN inMemory' =
          [inMemory EXCEPT
             !.fuzzyCache = << >>,
             !.invalidations = IF inMemory.fuzzyCache # << >> THEN @ + 1 ELSE @,
             !.postings = postingsOf(snapshot.postings),
             !.documents = snapshot.documents,
             !.vocabulary = IF snapshot.vocabulary.given
                            THEN addAll(<< >>, snapshot.vocabulary.terms) ELSE << >>,
             !.n = @ + 1]
  /\ UNCHANGED << flushing, engineVars, lru, lruCall, expansion, codec, statsManager,
                  ranked, bulkCall, opening >>

\* search(query, {fuzzy}); fuzzy 0 is a search without fuzzy and fuzzy: true
\* is the distance 2
MemorySearch(query, fuzzy) ==
  /\ inMemory.n < MaxMemoryCalls
  /\ LET result == memoryExecuteSearch(inMemory, query, fuzzy)
     IN inMemory' =
          [inMemory EXCEPT
             !.fuzzyCache = result.fuzzyCache,
             !.call = [ query |-> query, fuzzy |-> fuzzy, tokens |-> result.tokens,
                        documents |-> result.documents ],
             !.n = @ + 1]
  /\ UNCHANGED << flushing, engineVars, lru, lruCall, expansion, codec, statsManager,
                  ranked, bulkCall, opening >>

MemorySpec ==
  MemoryInit
  /\ [][ \/ \E input \in {DocA, DocA2, DocB} : MemoryAdd(input)
         \/ \E docId \in {NumId(1), StrId(<<"2">>)} : MemoryRemove(docId)
         \/ MemoryClear
         \/ \E vocabularyOf \in { [given |-> FALSE, terms |-> << >>],
                                  [given |-> TRUE, terms |-> << TextCat >>] } :
              MemoryImportSnapshot([ postings |-> SnapshotB.postings,
                                     stats |-> SnapshotB.stats,
                                     documents |-> << >>,
                                     vocabulary |-> vocabularyOf ])
         \/ \E query \in {TextCat, TextCatDog, TextCot, TextCa} :
              \E fuzzy \in {0, 1, 3} : MemorySearch(query, fuzzy) ]_vars

\* C31: after a search with fuzzy distance active, every post-pipeline term t
\* of the query is in the query-token set of every requested field with
\* boost 1, every other token has boost 0.8, and every document the same
\* query returns without fuzzy is returned.
C31_ExactTermKeepsFullBoost ==
  LET call == inMemory.call
      exact == { << config.fields[i], RunOf(config.pipeline, call.query)[j].value >> :
                   i \in 1..Len(config.fields),
                   j \in 1..Len(RunOf(config.pipeline, call.query)) }
      token(i) == << call.tokens[i].field, call.tokens[i].term >>
  IN call.fuzzy > 0 =>
       /\ \A pair \in exact :
            \E i \in 1..Len(call.tokens) :
              token(i) = pair /\ call.tokens[i].boost = 10
       /\ \A i \in 1..Len(call.tokens) :
            token(i) \notin exact => call.tokens[i].boost = 8
       /\ memoryExecuteSearch(inMemory, call.query, 0).documents \subseteq call.documents

\* C32: every entry of the fuzzy expansion cache, under the key of a term and
\* a distance d, is fuzzyExpand(term, d, vocabulary) for the vocabulary the
\* instance has now.
C32_FuzzyCacheMatchesVocabulary ==
  \A i \in 1..Len(inMemory.fuzzyCache) :
    LET cacheKey == inMemory.fuzzyCache[i].k
        term == SubSeq(cacheKey, 1, Len(cacheKey) - 2)
        distance == CHOOSE d \in 1..9 : ToString(d) = cacheKey[Len(cacheKey)]
    IN /\ cacheKey[Len(cacheKey) - 1] = ":"
       /\ inMemory.fuzzyCache[i].v = fuzzyExpand(term, distance, inMemory.vocabulary)

\* a fuzzy search filled the cache, a mutation emptied it, and a later fuzzy
\* search filled it again with an expansion that names two terms
C32_RefilledAfterInvalidation ==
  /\ inMemory.invalidations >= 1
  /\ inMemory.call.fuzzy > 0
  /\ \E i \in 1..Len(inMemory.fuzzyCache) : Len(inMemory.fuzzyCache[i].v) >= 2

====
